---- MODULE Spec2Model ----
(***************************************************************************)
(* A model of the AroFlo integration: the API connector                    *)
(* (aroflo_connector.py), the pagination loop of the metrics aggregator    *)
(* (data_extractor.py) and the proofread-and-mark-ready run                *)
(* (proofread_and_mark_ready.py).                                          *)
(*                                                                         *)
(* Time is counted in clock ticks; TicksPerSecond ticks make one second.   *)
(***************************************************************************)
EXTENDS Integers, Sequences, FiniteSets, TLC

VARIABLES
    \* ---- AroFloConnector ------------------------------------------------
    org_encoded,        \* self.org_encoded   ("" when blank)
    u_encoded,          \* self.u_encoded
    p_encoded,          \* self.p_encoded
    secret_key,         \* self.secret_key
    now,                \* the wall clock, time.time(), in ticks
    last_request_time,  \* self._last_request_time, the rate-limit watermark
    pc,                 \* "idle": no call in progress; "attempt": at the top
                        \* of the retry loop of the call in progress
    op,                 \* the connector method called last
    retries,            \* its retries argument
    attempt,            \* the loop variable of its retry loop
    last_error,         \* its last_error: 0 is None, k the exception raised
                        \* by the k-th HTTP attempt of the call
    outcome,            \* how the last call ended
    attempts,           \* the HTTP attempts the last call made, in order
    entry,              \* the connector state on entry to the last call
    rate_slept,         \* ticks the last call slept in _rate_limit
    last_sent,          \* the time of the latest HTTP dispatch, -1 before any
    gap,                \* the time between the latest two dispatches, -1
                        \* while fewer than two were made
    ncalls,             \* connector calls made so far
    \* ---- DataExtractor._fetch_all_pages ---------------------------------
    page,               \* the loop variable page
    all_items,          \* len(all_items)
    fetch_pc,           \* "off", "loop": about to fetch `page`, "done": returned
    requested,          \* the page numbers passed to fetch_func, in order
    response,           \* the response to the latest fetch_func call
    max_reported,       \* the largest total-page count a response reported
                        \* so far (1 where it reports none), 0 before any
    \* ---- proofread_and_mark_ready.main ----------------------------------
    main_pc,            \* where main() stands; "returned" and "raised" end it
    apply_changes,      \* "--apply" in sys.argv
    tasks,              \* the completed tasks fetched in step 2
    timesheets,         \* the timesheets fetched in step 3
    task_i,             \* the position of the running for loop in its list
    jobs_to_process,    \* jobs_to_process
    descriptions_fixed, \* descriptions_fixed
    manual_corrections, \* manual_corrections, as printed in step 6
    marked,             \* marked
    failed,             \* failed
    api_writes,         \* the update calls main() made on the connector
    exit_code,          \* main()'s return value, -1 while it has none
    \* ---- the consumers of a connector response -------------------------
    consumer,           \* the consumer that read the latest response
    body,               \* the response body it was handed
    records_read,       \* how many records it took from that body
    nreads,             \* responses consumed so far
    \* ---- DataExtractor.get_monthly_report and MonthlyMetrics ------------
    primary_client,     \* config.PRIMARY_CLIENT, a string of characters
    metrics,            \* the MonthlyMetrics object
    report_pc,          \* "off"; "loop": in `for invoice in invoices`;
                        \* "derive": about to call calculate_derived_metrics;
                        \* "returned"
    invoices_left,      \* the fetched invoices the loop has yet to visit
    derived_raised,     \* calculate_derived_metrics raised ZeroDivisionError
    \* ---- Proofreader._check_text ---------------------------------------
    input_text,         \* the argument `text`, a string of characters
    spellchecker_available,   \* SPELLCHECKER_AVAILABLE
    language_tool_available,  \* LANGUAGE_TOOL_AVAILABLE
    check_pc,           \* "off"; "start"; "post": stage 1 is done and the
                        \* request is about to be sent; "matches": in the
                        \* loop over the matches; "fallback": the remote
                        \* check raised; "returned"; "raised"
    pre_corrected,      \* pre_corrected, the output of the custom pass
    matches,            \* result["matches"], in the order of the service
    match_i,            \* the matches `for match in reversed(matches)` has
                        \* yet to visit
    corrected,          \* the working text, and at the end the text returned
    errors,             \* the diagnostics list
    service_error,      \* the exception the remote check raised, or "none"
    local_input,        \* the text handed to the local checker, NoText
                        \* while none was called
    raised_error,       \* the exception _check_text raised, or "none"
    \* ---- Proofreader.proofread_uninvoiced_jobs -------------------------
    njobs,              \* len(jobs)
    job_i,              \* the jobs the for loop has visited
    results,            \* results, one entry per ProofreadResult
    batch_pc,           \* "off", "loop", "returned", "raised"
    raised_at,          \* the job whose proofreading raised, 0 if none did
    \* ---- the requests of one Proofreader to the grammar service ---------
    clock,              \* time.time(), in ticks
    last_api_call,      \* self._last_api_call
    grammar_pc,         \* "idle": between two checks; "post": about to POST
    post_attempt,       \* the loop variable attempt
    last_post,          \* the time of the latest POST, -1 before any
    post_gap,           \* the time between the latest two POSTs, -1 while
                        \* fewer than two were sent
    posts_made,         \* the POSTs of the current check
    grammar_outcome,    \* how the latest check's request ended
    nchecks,            \* checks begun so far
    paused,             \* ticks spent between checks so far
    last_status,        \* the status of the latest answer, 0 while the
                        \* current check has none
    waits,              \* the backoff sleeps of the current check, in ticks
    \* ---- SpreadsheetUpdater.update_spreadsheet --------------------------
    sheet_pc,           \* "idle": no call in progress; "backup", "load",
                        \* "cells", "save": the statement the call is at
    create_backup,      \* the argument create_backup
    month,              \* the argument month
    backups,            \* backup copies the current call has written
    backup_failed,      \* _backup_spreadsheet raised in the current call
    cells_set,          \* cells of the loaded workbook the call has set
    file_modified,      \* the call has written to the workbook file
    sheet_result,       \* the latest return value, "none" before any
    nupdates,           \* update_spreadsheet calls made so far
    \* ---- main.py and mark_ready_to_invoice.py --------------------------
    command,            \* the subcommand of main.py, or the script
                        \* "mark_ready_to_invoice"
    configured,         \* the credential settings that are not blank
    args_apply,         \* --apply was given
    checker_installed,  \* SPELLCHECKER_AVAILABLE or LANGUAGE_TOOL_AVAILABLE
    cli_pc,             \* "off"; "start"; "connect", "report", "proofread",
                        \* "substatus", "tasks", "updates": the call the
                        \* command is about to make; "exited"
    tasks_to_update,    \* len(tasks_to_update)
    update_i,           \* the tasks the apply loop has visited
    update_calls,       \* update_task_substatus calls the command made
    cli_failed,         \* failed, the updates that raised
    request_failed,     \* an API read the command made has raised
    exit_status,        \* the exit status of the process, -1 while it runs
    \* ---- the XML payload of update_task_description --------------------
    xml_description,    \* the argument description, a string of characters
    embedded,           \* the text between <description> and </description>
    escape_pc,          \* "off"; "start"; "built": postxml is built
    \* ---- one signed HTTP attempt of the connector -----------------------
    host_ip,            \* self.host_ip, "" when not set
    signed_op,          \* the connector method making the attempt
    string_to_sign,     \* the payload list the HMAC is computed over
    transmitted,        \* what session.get / session.post sends
    nsigned             \* attempts made so far

connector_vars == <<org_encoded, u_encoded, p_encoded, secret_key, now,
                    last_request_time, pc, op, retries, attempt, last_error,
                    outcome, attempts, entry, rate_slept, last_sent, gap,
                    ncalls>>
pages_vars == <<page, all_items, fetch_pc, requested, response, max_reported>>
run_vars == <<main_pc, apply_changes, tasks, timesheets, task_i,
              jobs_to_process, descriptions_fixed, manual_corrections,
              marked, failed, api_writes, exit_code>>
consumer_vars == <<consumer, body, records_read, nreads>>
legacy_vars == <<connector_vars, pages_vars, run_vars>>
report_vars == <<primary_client, metrics, report_pc, invoices_left,
                 derived_raised>>
check_vars == <<input_text, spellchecker_available, language_tool_available,
                check_pc, pre_corrected, matches, match_i, corrected, errors,
                service_error, local_input, raised_error>>
batch_vars == <<njobs, job_i, results, batch_pc, raised_at>>
grammar_vars == <<clock, last_api_call, grammar_pc, post_attempt, last_post,
                  post_gap, posts_made, grammar_outcome, nchecks, paused,
                  last_status, waits>>
sheet_vars == <<sheet_pc, create_backup, month, backups, backup_failed,
                cells_set, file_modified, sheet_result, nupdates>>
cli_vars == <<command, configured, args_apply, checker_installed, cli_pc,
              tasks_to_update, update_i, update_calls, cli_failed,
              request_failed, exit_status>>
xml_vars == <<xml_description, embedded, escape_pc>>
sign_vars == <<host_ip, signed_op, string_to_sign, transmitted, nsigned>>
tail_vars == <<sheet_vars, cli_vars, xml_vars, sign_vars>>
later_vars == <<consumer_vars, report_vars, check_vars, batch_vars,
                grammar_vars, tail_vars>>
main_vars == <<legacy_vars, consumer_vars, report_vars, check_vars,
               batch_vars, grammar_vars>>
besides_sheet == <<main_vars, cli_vars, xml_vars, sign_vars>>
besides_cli == <<main_vars, sheet_vars, xml_vars, sign_vars>>
besides_xml == <<main_vars, sheet_vars, cli_vars, sign_vars>>
besides_sign == <<main_vars, sheet_vars, cli_vars, xml_vars>>
besides_consumer == <<legacy_vars, report_vars, check_vars, batch_vars,
                      grammar_vars, tail_vars>>
besides_report == <<legacy_vars, consumer_vars, check_vars, batch_vars,
                    grammar_vars, tail_vars>>
besides_check == <<legacy_vars, consumer_vars, report_vars, batch_vars,
                   grammar_vars, tail_vars>>
besides_batch == <<legacy_vars, consumer_vars, report_vars, check_vars,
                   grammar_vars, tail_vars>>
besides_grammar == <<legacy_vars, consumer_vars, report_vars, check_vars,
                     batch_vars, tail_vars>>
vars == <<legacy_vars, later_vars>>

(***************************************************************************)
(* Bounds of the model.                                                    *)
(***************************************************************************)
MaxCalls == 2       \* connector calls in one behaviour
MaxLatency == 1     \* ticks an HTTP attempt takes to answer or to fail
MaxTime == 4        \* the caller lets time pass between calls up to here
MaxTotalPages == 3  \* the largest total-page count a response reports
MaxItems == 2       \* the most items one page holds
MaxTasks == 2       \* the most completed tasks the API returns
MaxTimesheets == 1  \* the most timesheets the API returns

(***************************************************************************)
(* config.py and the clock unit.                                           *)
(***************************************************************************)
API_CALLS_PER_MINUTE == 120
\* `retries: int = 3`, the default of the three methods; no caller in the
\* repository passes another value.
DEFAULT_RETRIES == 3
\* The retries arguments modelled: the default and every smaller count.
RetriesArgs == 0..DEFAULT_RETRIES
\* The tick is chosen so that 60 / API_CALLS_PER_MINUTE seconds is a whole
\* number of ticks (two) and an attempt can answer faster than that.
TicksPerSecond == API_CALLS_PER_MINUTE \div 30
min_request_interval == (60 * TicksPerSecond) \div API_CALLS_PER_MINUTE

Max(a, b) == IF a >= b THEN a ELSE b

RECURSIVE Pow2(_)
Pow2(k) == IF k = 0 THEN 1 ELSE 2 * Pow2(k - 1)

(***************************************************************************)
(* DataExtractor._fetch_all_pages                                          *)
(***************************************************************************)
\* What fetch_func returns for one page: a value that is no dict
\* ("not_dict"), a dict holding `n` records under a collection key at its top
\* level ("top_level"), or a dict holding them inside the `zoneresponse`
\* envelope ("zoneresponse"); `totalpages` is the count the body reports at
\* its top level, 0 when it reports none.
Shapes == {"not_dict", "top_level", "zoneresponse"}
Responses == [shape : Shapes, n : 0..MaxItems, totalpages : 0..MaxTotalPages]
NoResponse == [shape |-> "none", n |-> 0, totalpages |-> 0]

\* `items = []`, then the first of response["invoices"], ["projects"],
\* ["tasks"], ["data"], ["items"] when response is a dict.
ItemsOf(r) == IF r.shape = "top_level" THEN r.n ELSE 0

\* `response.get("totalpages", 1)`
TotalPagesOf(r) == IF r.totalpages = 0 THEN 1 ELSE r.totalpages

\* `if page >= total_pages: break`
NeverLastPage(p, r) == FALSE
LastPage(p, r) == p >= TotalPagesOf(r)

\* One pass of the `while True` loop.
FetchPage ==
    \E r \in Responses :
        /\ fetch_pc = "loop"
        /\ requested' = Append(requested, page)
        /\ response' = r
        /\ max_reported' = Max(max_reported, TotalPagesOf(r))
        /\ IF ItemsOf(r) = 0
           THEN /\ fetch_pc' = "done"
                /\ UNCHANGED <<page, all_items>>
           ELSE /\ all_items' = all_items + ItemsOf(r)
                /\ IF LastPage(page, r)
                   THEN fetch_pc' = "done" /\ UNCHANGED page
                   ELSE fetch_pc' = "loop" /\ page' = page + 1
        /\ UNCHANGED <<connector_vars, run_vars, later_vars>>

\* `all_items = []`, `page = 1`
PagesInit ==
    /\ page = 1 /\ all_items = 0 /\ fetch_pc = "loop"
    /\ requested = <<>> /\ response = NoResponse /\ max_reported = 0

(***************************************************************************)
(* AroFloConnector                                                         *)
(***************************************************************************)
CredentialValues == {"", "enc"}

ReadOps == {"request"}
WriteOps == {"update_task_substatus", "update_task_description"}

\* Parsed response bodies: a JSON value that is no object, or an object with
\* a falsy or truthy top-level `error` and a `status` that is or is not the
\* sentinel "-99999".
Bodies ==
    {[isDict |-> FALSE, error |-> FALSE, status |-> "0"]}
    \cup [isDict : {TRUE}, error : BOOLEAN, status : {"0", "-99999"}]

NoBody == [isDict |-> FALSE, error |-> FALSE, status |-> "none"]

\* `if not all([self.org_encoded, self.u_encoded, self.secret_key])`
CredentialsOk == org_encoded # "" /\ u_encoded # "" /\ secret_key # ""

\* _generate_auth: the timestamp is read from the clock (t) inside the call
\* and is one of the signed fields; the HMAC is kept as the fields it covers.
generate_auth(t) ==
    [method |-> "GET", afdatetimeutc |-> t, Authentication |-> <<"GET", t>>]

\* _generate_auth_post
generate_auth_post(t) ==
    [method |-> "POST", afdatetimeutc |-> t, Authentication |-> <<"POST", t>>]

\* The headers of one attempt, made inside the retry loop from the clock as
\* it stands at that attempt.
StaleHeaders ==
    IF attempts = <<>>
    THEN (IF op \in ReadOps THEN generate_auth(now) ELSE generate_auth_post(now))
    ELSE attempts[1].headers
AttemptHeaders ==
    IF op \in ReadOps THEN generate_auth(now) ELSE generate_auth_post(now)

\* _rate_limit: the ticks slept, given the clock on entry.
rate_limit_sleep_none(t) == 0
rate_limit_sleep(t) ==
    IF t - last_request_time < min_request_interval
    THEN min_request_interval - (t - last_request_time)
    ELSE 0

\* The API-level error checks of the three methods on the parsed body.
request_api_error(data) ==
    data.isDict /\ (data.error \/ data.status = "-99999")
update_task_substatus_api_error(data) ==
    data.isDict /\ (data.error \/ data.status = "-99999")
update_task_description_api_error(data) ==
    data.isDict /\ data.status = "-99999"

ApiError(o, data) ==
    CASE o = "request" -> request_api_error(data)
      [] o = "update_task_substatus" -> update_task_substatus_api_error(data)
      [] o = "update_task_description" -> update_task_description_api_error(data)

\* A variant that sleeps after the last failed attempt too.
SleepAfterEveryFailure(k, n) == Pow2(k) * TicksPerSecond
\* `time.sleep(2 ** attempt)` when `attempt < retries - 1`, in ticks.
BackoffSleep(k, n) == IF k < n - 1 THEN Pow2(k) * TicksPerSecond ELSE 0

\* `last_error = e`
KeepFirstError(prev, k) == IF prev = 0 THEN k ELSE prev
NextLastError(prev, k) == k

\* `raise last_error or ValueError("Request failed after all retries")`
RaiseGeneric(err) ==
    [kind |-> "ValueError_generic", error |-> 0, body |-> NoBody]
RaiseAfterRetries(err) ==
    IF err # 0
    THEN [kind |-> "RequestException", error |-> err, body |-> NoBody]
    ELSE [kind |-> "ValueError_generic", error |-> 0, body |-> NoBody]

Entry == [last_request_time |-> last_request_time, now |-> now]

\* The part the three methods share up to the retry loop: the credentials
\* check, then _rate_limit, then the loop (which raises at once when
\* retries is 0).
CredentialsSkipped(o, n) ==
    LET slept == rate_limit_sleep(now) IN
    /\ pc = "idle" /\ ncalls < MaxCalls
    /\ ncalls' = ncalls + 1
    /\ op' = o /\ retries' = n /\ attempt' = 0 /\ last_error' = 0
    /\ attempts' = <<>> /\ entry' = Entry
    /\ rate_slept' = slept
    /\ now' = now + slept
    /\ last_request_time' = now + slept
    /\ pc' = IF n = 0 THEN "idle" ELSE "attempt"
    /\ outcome' = IF n = 0 THEN RaiseAfterRetries(0)
                  ELSE [kind |-> "none", error |-> 0, body |-> NoBody]
    /\ UNCHANGED <<org_encoded, u_encoded, p_encoded, secret_key, last_sent, gap>>
Enter(o, n) ==
    /\ pc = "idle" /\ ncalls < MaxCalls
    /\ ncalls' = ncalls + 1
    /\ op' = o /\ retries' = n /\ attempt' = 0 /\ last_error' = 0
    /\ attempts' = <<>> /\ entry' = Entry
    /\ IF ~CredentialsOk
       THEN /\ outcome' = [kind |-> "ValueError_credentials", error |-> 0,
                           body |-> NoBody]
            /\ rate_slept' = 0
            /\ UNCHANGED <<now, last_request_time, pc>>
       ELSE LET slept == rate_limit_sleep(now) IN
            /\ rate_slept' = slept
            /\ now' = now + slept
            /\ last_request_time' = now + slept
            /\ pc' = IF n = 0 THEN "idle" ELSE "attempt"
            /\ outcome' = IF n = 0 THEN RaiseAfterRetries(0)
                          ELSE [kind |-> "none", error |-> 0, body |-> NoBody]
    /\ UNCHANGED <<org_encoded, u_encoded, p_encoded, secret_key, last_sent, gap>>

request ==
    \E n \in RetriesArgs : Enter("request", n) /\ UNCHANGED <<pages_vars, run_vars, later_vars>>

update_task_substatus ==
    \E n \in RetriesArgs :
        Enter("update_task_substatus", n) /\ UNCHANGED <<pages_vars, run_vars, later_vars>>

update_task_description ==
    \E n \in RetriesArgs :
        Enter("update_task_description", n) /\ UNCHANGED <<pages_vars, run_vars, later_vars>>

\* One pass of the retry loop: sign, dispatch, and handle what comes back.
\* `transport_failure` is a transport failure (requests.RequestException, raised by
\* session.get/post or by raise_for_status); otherwise `data` is the parsed
\* body, which answers after `lat` ticks.
AttemptStep(lat, transport_failure, data) ==
    LET headers == AttemptHeaders
        ended == now + lat
        k == attempt + 1
        slept == IF transport_failure THEN BackoffSleep(attempt, retries) ELSE 0
        rec == [headers |-> headers, sent |-> now, ended |-> ended,
                failed |-> transport_failure, body |-> IF transport_failure THEN NoBody ELSE data,
                slept |-> slept]
    IN
    /\ pc = "attempt"
    /\ attempts' = Append(attempts, rec)
    /\ gap' = IF last_sent = -1 THEN -1 ELSE now - last_sent
    /\ last_sent' = now
    /\ now' = ended + slept
    /\ IF transport_failure
       THEN /\ last_error' = NextLastError(last_error, k)
            /\ attempt' = attempt + 1
            /\ IF attempt + 1 < retries
               THEN UNCHANGED <<pc, outcome>>
               ELSE /\ pc' = "idle"
                    /\ outcome' = RaiseAfterRetries(NextLastError(last_error, k))
       ELSE /\ pc' = "idle"
            /\ outcome' = IF ApiError(op, data)
                          THEN [kind |-> "ValueError_api", error |-> 0, body |-> data]
                          ELSE [kind |-> "returned", error |-> 0, body |-> data]
            /\ UNCHANGED <<last_error, attempt>>
    /\ UNCHANGED <<org_encoded, u_encoded, p_encoded, secret_key,
                   last_request_time, op, retries, entry, rate_slept, ncalls>>

AttemptFails ==
    \E lat \in 0..MaxLatency :
        AttemptStep(lat, TRUE, NoBody) /\ UNCHANGED <<pages_vars, run_vars, later_vars>>

AttemptAnswers ==
    \E lat \in 0..MaxLatency, data \in Bodies :
        AttemptStep(lat, FALSE, data) /\ UNCHANGED <<pages_vars, run_vars, later_vars>>

\* update_timesheet_note(*args, **kwargs): raises NotImplementedError.
TimesheetNoteChecksCredentials ==
    /\ pc = "idle" /\ ncalls < MaxCalls
    /\ ncalls' = ncalls + 1
    /\ op' = "update_timesheet_note"
    /\ retries' = 0 /\ attempt' = 0 /\ last_error' = 0
    /\ attempts' = <<>> /\ entry' = Entry /\ rate_slept' = 0
    /\ outcome' = [kind |-> IF CredentialsOk THEN "NotImplementedError"
                            ELSE "ValueError_credentials",
                   error |-> 0, body |-> NoBody]
    /\ UNCHANGED <<org_encoded, u_encoded, p_encoded, secret_key, now,
                   last_request_time, pc, last_sent, gap>>
    /\ UNCHANGED <<pages_vars, run_vars, later_vars>>
update_timesheet_note ==
    /\ pc = "idle" /\ ncalls < MaxCalls
    /\ ncalls' = ncalls + 1
    /\ op' = "update_timesheet_note"
    /\ retries' = 0 /\ attempt' = 0 /\ last_error' = 0
    /\ attempts' = <<>> /\ entry' = Entry /\ rate_slept' = 0
    /\ outcome' = [kind |-> "NotImplementedError", error |-> 0, body |-> NoBody]
    /\ UNCHANGED <<org_encoded, u_encoded, p_encoded, secret_key, now,
                   last_request_time, pc, last_sent, gap>>
    /\ UNCHANGED <<pages_vars, run_vars, later_vars>>

\* The caller lets a tick pass between two calls.
Elapse ==
    /\ pc = "idle" /\ now < MaxTime
    /\ now' = now + 1
    /\ UNCHANGED <<org_encoded, u_encoded, p_encoded, secret_key,
                   last_request_time, pc, op, retries, attempt, last_error,
                   outcome, attempts, entry, rate_slept, last_sent, gap, ncalls>>
    /\ UNCHANGED <<pages_vars, run_vars, later_vars>>

PagesIdle ==
    /\ page = 1 /\ all_items = 0 /\ fetch_pc = "off"
    /\ requested = <<>> /\ response = NoResponse /\ max_reported = 0
RunIdle ==
    /\ main_pc = "off" /\ apply_changes = FALSE
    /\ tasks = <<>> /\ timesheets = <<>> /\ task_i = 0
    /\ jobs_to_process = <<>> /\ descriptions_fixed = 0
    /\ manual_corrections = <<>> /\ marked = 0 /\ failed = 0
    /\ api_writes = <<>> /\ exit_code = -1
ConsumersIdle ==
    /\ consumer = "none" /\ records_read = 0 /\ nreads = 0
    /\ body = [envelope |-> FALSE, inside |-> 0, top |-> 0]
\* 0.0 as an exact fraction, and a fresh MonthlyMetrics().
Zero == [num |-> 0, den |-> 1]
NewMetrics ==
    [revenue |-> 0, materials_cost |-> 0, labour_cost |-> 0,
     gross_profit_dollars |-> 0, gross_profit_percent |-> Zero,
     net_profit_dollars |-> 0, net_profit_percent |-> Zero,
     completed_jobs |-> 0, average_job_value |-> Zero,
     primary_client_jobs |-> 0, primary_client_value |-> 0,
     other_client_jobs |-> 0, other_client_value |-> 0,
     jobs_total |-> 0, primary_client_percent |-> Zero,
     other_client_percent |-> Zero]
ReportIdle ==
    /\ primary_client = <<>> /\ metrics = NewMetrics /\ report_pc = "off"
    /\ invoices_left = 0 /\ derived_raised = FALSE
\* No text: a value no string of characters equals.
NoText == <<"None">>
CheckIdle ==
    /\ input_text = <<>> /\ spellchecker_available = FALSE
    /\ language_tool_available = FALSE /\ check_pc = "off"
    /\ pre_corrected = <<>> /\ matches = <<>> /\ match_i = 0
    /\ corrected = <<>> /\ errors = <<>> /\ service_error = "none"
    /\ local_input = NoText /\ raised_error = "none"
BatchIdle ==
    /\ njobs = 0 /\ job_i = 0 /\ results = <<>> /\ batch_pc = "off"
    /\ raised_at = 0
GrammarIdle ==
    /\ clock = 0 /\ last_api_call = 0 /\ grammar_pc = "off"
    /\ post_attempt = 0 /\ last_post = -1 /\ post_gap = -1
    /\ posts_made = 0 /\ grammar_outcome = "none" /\ nchecks = 0
    /\ paused = 0 /\ last_status = 0 /\ waits = <<>>
SheetIdle ==
    /\ sheet_pc = "off" /\ create_backup = FALSE /\ month = 0
    /\ backups = 0 /\ backup_failed = FALSE /\ cells_set = 0
    /\ file_modified = FALSE /\ sheet_result = "none" /\ nupdates = 0
CliIdle ==
    /\ command = "none" /\ configured = {} /\ args_apply = FALSE
    /\ checker_installed = FALSE /\ cli_pc = "off" /\ tasks_to_update = 0
    /\ update_i = 0 /\ update_calls = 0 /\ cli_failed = 0
    /\ request_failed = FALSE /\ exit_status = -1
XmlIdle == xml_description = <<>> /\ embedded = <<>> /\ escape_pc = "off"
\* Nothing sent: no method, no parameters, no headers.
NothingSent == [method |-> "none", params |-> "none", headers |-> <<>>]
SignIdle ==
    /\ host_ip = "" /\ signed_op = "none" /\ string_to_sign = <<>>
    /\ transmitted = NothingSent /\ nsigned = 0
TailIdle == SheetIdle /\ CliIdle /\ XmlIdle /\ SignIdle
LaterIdle ==
    /\ ConsumersIdle /\ ReportIdle /\ CheckIdle /\ BatchIdle /\ GrammarIdle
    /\ TailIdle

\* __init__: the credentials are whatever the environment supplied, the
\* watermark is 0 and the clock (epoch seconds) is far past it.
ConnectorInit ==
    /\ org_encoded \in CredentialValues
    /\ u_encoded \in CredentialValues
    /\ p_encoded \in CredentialValues
    /\ secret_key \in CredentialValues
    /\ now = min_request_interval
    /\ last_request_time = 0
    /\ pc = "idle" /\ op = "none" /\ retries = 0 /\ attempt = 0
    /\ last_error = 0
    /\ outcome = [kind |-> "none", error |-> 0, body |-> NoBody]
    /\ attempts = <<>>
    /\ entry = [last_request_time |-> 0, now |-> min_request_interval]
    /\ rate_slept = 0 /\ last_sent = -1 /\ gap = -1 /\ ncalls = 0

Init == ConnectorInit /\ PagesIdle /\ RunIdle /\ LaterIdle

Next ==
    \/ request
    \/ update_task_substatus
    \/ update_task_description
    \/ update_timesheet_note
    \/ AttemptFails
    \/ AttemptAnswers
    \/ Elapse

Spec == Init /\ [][Next]_vars

ConnectorIdle ==
    /\ org_encoded = "enc" /\ u_encoded = "enc" /\ p_encoded = "enc"
    /\ secret_key = "enc"
    /\ now = min_request_interval
    /\ last_request_time = 0
    /\ pc = "idle" /\ op = "none" /\ retries = 0 /\ attempt = 0
    /\ last_error = 0
    /\ outcome = [kind |-> "none", error |-> 0, body |-> NoBody]
    /\ attempts = <<>>
    /\ entry = [last_request_time |-> 0, now |-> min_request_interval]
    /\ rate_slept = 0 /\ last_sent = -1 /\ gap = -1 /\ ncalls = 0

PagesSpecInit == ConnectorIdle /\ PagesInit /\ RunIdle /\ LaterIdle
PagesNext == FetchPage
PagesSpec == PagesSpecInit /\ [][PagesNext]_vars

(***************************************************************************)
(* proofread_and_mark_ready.main                                           *)
(*                                                                         *)
(* A text is "" or one of two non-empty strings; the tasks and timesheets  *)
(* the API returns carry "" or the first of them, and the text corrector,  *)
(* which applies whatever replacements the grammar service answers with,   *)
(* may return any of the three.  A task's job number is its position in    *)
(* the task list.  A connector call either returns or raises.              *)
(***************************************************************************)
Texts == {"", "teh job", "the job"}
SourceTexts == {"", "teh job"}

SeqsUpTo(S, n) == UNION {[1..k -> S] : k \in 0..n}

\* get_timesheets_by_job: by_job[job_no], in the order of the response.
TimesheetsOfJob(j) == SelectSeq(timesheets, LAMBDA ts : ts.job = j)

\* What Proofreader._check_text does with a text, given what the checkers
\* behind it do ("raise", or the corrected text they produce): a text that is
\* empty after strip() comes back as it is.
CheckResults == {"raise"} \cup Texts
check_text(text, res) == IF text = "" THEN text ELSE res

\* `try: corrected, _ = proofreader._check_text(part)` /
\* `except: corrected = part`
CorrectedPart(part, res) ==
    IF check_text(part, res) = "raise" THEN part ELSE check_text(part, res)

\* Step 1: connector.get_substatus_id("Ready to Invoice").
GetSubstatusId ==
    /\ main_pc = "get_substatus_id"
    /\ \E result \in {"raise", "none", "found"} :
        CASE result = "raise" -> main_pc' = "raised" /\ exit_code' = 1
          [] result = "none" -> main_pc' = "returned" /\ exit_code' = 1
          [] result = "found" -> main_pc' = "get_tasks" /\ UNCHANGED exit_code
    /\ UNCHANGED <<apply_changes, tasks, timesheets, task_i, jobs_to_process,
                   descriptions_fixed, manual_corrections, marked, failed,
                   api_writes>>
    /\ UNCHANGED <<connector_vars, pages_vars, later_vars>>

\* Step 2: the completed tasks.
GetTasks ==
    /\ main_pc = "get_tasks"
    /\ \/ /\ main_pc' = "raised" /\ exit_code' = 1
          /\ UNCHANGED tasks
       \/ /\ main_pc' = "returned" /\ exit_code' = 0
          /\ tasks' = <<>>
       \/ /\ tasks' \in SeqsUpTo([description : SourceTexts], MaxTasks) \ {<<>>}
          /\ main_pc' = "get_timesheets"
          /\ UNCHANGED exit_code
    /\ UNCHANGED <<apply_changes, timesheets, task_i, jobs_to_process,
                   descriptions_fixed, manual_corrections, marked, failed,
                   api_writes>>
    /\ UNCHANGED <<connector_vars, pages_vars, later_vars>>

\* Step 3: get_timesheets_by_job.
GetTimesheets ==
    /\ main_pc = "get_timesheets"
    /\ \/ /\ main_pc' = "raised" /\ exit_code' = 1
          /\ UNCHANGED <<timesheets, task_i>>
       \/ /\ timesheets' \in SeqsUpTo([job : 1..MaxTasks, note : SourceTexts],
                                      MaxTimesheets)
          /\ main_pc' = "proofread" /\ task_i' = 1
          /\ UNCHANGED exit_code
    /\ UNCHANGED <<apply_changes, tasks, jobs_to_process, descriptions_fixed,
                   manual_corrections, marked, failed, api_writes>>
    /\ UNCHANGED <<connector_vars, pages_vars, later_vars>>

\* Step 4, one pass of `for task in tasks`.  `combined` is what the checkers
\* do with the combined text ("raise", no diagnostic, or diagnostics), `dres`
\* and `nres` what they do with the description and with each note.
ProofreadJob(description, timesheet_entries, combined, dres, nres) ==
    LET notes == SelectSeq(timesheet_entries, LAMBDA ts : ts.note # "")
        no_text == description = "" /\ notes = <<>>
        has_errors == ~no_text /\ combined = "errors"
        corrected_description ==
            IF has_errors /\ description # ""
            THEN CorrectedPart(description, dres)
            ELSE description
        corrected_timesheets ==
            [k \in 1..Len(timesheet_entries) |->
                LET note == timesheet_entries[k].note
                    corrected_note ==
                        IF has_errors /\ note # ""
                        THEN CorrectedPart(note, nres[k])
                        ELSE note
                IN [note |-> note, corrected_note |-> corrected_note,
                    changed |-> has_errors /\ note # corrected_note]]
    IN [has_errors |-> has_errors,
        description |-> description,
        corrected_description |-> corrected_description,
        description_changed |-> ~no_text /\ description # corrected_description,
        check_raised |-> ~no_text /\ combined = "raise",
        timesheet_entries |-> corrected_timesheets]

Proofread ==
    /\ main_pc = "proofread"
    /\ IF task_i > Len(tasks)
       THEN \* the summary, and the dry run's return
            /\ IF apply_changes
               THEN main_pc' = "apply_descriptions" /\ task_i' = 1
                    /\ UNCHANGED exit_code
               ELSE main_pc' = "returned" /\ exit_code' = 0
                    /\ UNCHANGED task_i
            /\ UNCHANGED jobs_to_process
       ELSE LET entries == TimesheetsOfJob(task_i) IN
            \E combined \in {"raise", "clean", "errors"},
               dres \in CheckResults,
               nres \in [1..Len(entries) -> CheckResults] :
                /\ jobs_to_process' =
                     Append(jobs_to_process,
                            ProofreadJob(tasks[task_i].description, entries,
                                         combined, dres, nres))
                /\ task_i' = task_i + 1
                /\ UNCHANGED <<main_pc, exit_code>>
    /\ UNCHANGED <<apply_changes, tasks, timesheets, descriptions_fixed,
                   manual_corrections, marked, failed, api_writes>>
    /\ UNCHANGED <<connector_vars, pages_vars, later_vars>>

\* Step 5, one pass of `for job in jobs_to_process`.
ApplyDescriptions ==
    /\ main_pc = "apply_descriptions"
    /\ IF task_i > Len(jobs_to_process)
       THEN /\ main_pc' = "manual_corrections"
            /\ UNCHANGED <<task_i, descriptions_fixed, api_writes>>
       ELSE LET job == jobs_to_process[task_i] IN
            /\ task_i' = task_i + 1
            /\ UNCHANGED main_pc
            /\ IF ~job.description_changed \/ job.corrected_description = ""
               THEN UNCHANGED <<descriptions_fixed, api_writes>>
               ELSE \E updated \in BOOLEAN :
                    /\ api_writes' =
                         Append(api_writes,
                                [op |-> "update_task_description",
                                 job |-> task_i, updated |-> updated])
                    /\ descriptions_fixed' =
                         IF updated THEN descriptions_fixed + 1
                         ELSE descriptions_fixed
    /\ UNCHANGED <<apply_changes, tasks, timesheets, jobs_to_process,
                   manual_corrections, marked, failed, exit_code>>
    /\ UNCHANGED <<connector_vars, pages_vars, later_vars>>

\* Step 6: the manual-corrections list of one job, `k` entries into it.
RECURSIVE JobManualCorrections(_, _, _)
JobManualCorrections(j, job, k) ==
    IF k > Len(job.timesheet_entries) THEN <<>>
    ELSE LET ts == job.timesheet_entries[k] IN
         (IF ts.changed /\ ts.corrected_note # ""
          THEN <<[job |-> j, before |-> ts.note, after |-> ts.corrected_note]>>
          ELSE <<>>)
         \o JobManualCorrections(j, job, k + 1)

RECURSIVE ManualCorrectionsFrom(_)
ManualCorrectionsFrom(j) ==
    IF j > Len(jobs_to_process) THEN <<>>
    ELSE (IF jobs_to_process[j].has_errors
          THEN JobManualCorrections(j, jobs_to_process[j], 1)
          ELSE <<>>)
         \o ManualCorrectionsFrom(j + 1)

\* Step 6 as a whole: the list is built and printed; nothing is sent.
NotesSentToApi ==
    /\ main_pc = "manual_corrections"
    /\ manual_corrections' = ManualCorrectionsFrom(1)
    /\ api_writes' =
         api_writes \o [k \in 1..Len(ManualCorrectionsFrom(1)) |->
                          [op |-> "update_timesheet_note",
                           job |-> ManualCorrectionsFrom(1)[k].job]]
    /\ main_pc' = "mark_ready" /\ task_i' = 1
    /\ UNCHANGED <<apply_changes, tasks, timesheets, jobs_to_process,
                   descriptions_fixed, marked, failed, exit_code>>
    /\ UNCHANGED <<connector_vars, pages_vars, later_vars>>
ManualCorrections ==
    /\ main_pc = "manual_corrections"
    /\ manual_corrections' = ManualCorrectionsFrom(1)
    /\ main_pc' = "mark_ready" /\ task_i' = 1
    /\ UNCHANGED <<apply_changes, tasks, timesheets, jobs_to_process,
                   descriptions_fixed, marked, failed, api_writes, exit_code>>
    /\ UNCHANGED <<connector_vars, pages_vars, later_vars>>

\* Step 7, one pass of `for job in jobs_to_process`, and the return.
MarkReady ==
    /\ main_pc = "mark_ready"
    /\ IF task_i > Len(jobs_to_process)
       THEN /\ main_pc' = "returned"
            /\ exit_code' = IF failed = 0 THEN 0 ELSE 1
            /\ UNCHANGED <<task_i, marked, failed, api_writes>>
       ELSE /\ task_i' = task_i + 1
            /\ api_writes' =
                 Append(api_writes,
                        [op |-> "update_task_substatus", job |-> task_i])
            /\ \/ marked' = marked + 1 /\ UNCHANGED failed
               \/ failed' = failed + 1 /\ UNCHANGED marked
            /\ UNCHANGED <<main_pc, exit_code>>
    /\ UNCHANGED <<apply_changes, tasks, timesheets, jobs_to_process,
                   descriptions_fixed, manual_corrections>>
    /\ UNCHANGED <<connector_vars, pages_vars, later_vars>>

\* `apply_changes = "--apply" in sys.argv`
RunInit ==
    /\ main_pc = "get_substatus_id" /\ apply_changes \in BOOLEAN
    /\ tasks = <<>> /\ timesheets = <<>> /\ task_i = 0
    /\ jobs_to_process = <<>> /\ descriptions_fixed = 0
    /\ manual_corrections = <<>> /\ marked = 0 /\ failed = 0
    /\ api_writes = <<>> /\ exit_code = -1

RunSpecInit == ConnectorIdle /\ PagesIdle /\ RunInit /\ LaterIdle
RunNext ==
    \/ GetSubstatusId
    \/ GetTasks
    \/ GetTimesheets
    \/ Proofread
    \/ ApplyDescriptions
    \/ ManualCorrections
    \/ MarkReady
RunSpec == RunSpecInit /\ [][RunNext]_vars

(***************************************************************************)
(* Claims about the connector, checked under Spec.                         *)
(***************************************************************************)
HttpOps == ReadOps \cup WriteOps

\* The claims' error sentinel: an object with a truthy top-level `error` or
\* with status "-99999".
Sentinel(data) == data.isDict /\ (data.error \/ data.status = "-99999")

BlankCredentials == org_encoded = "" \/ u_encoded = "" \/ secret_key = ""

\* C1: with a blank org id, user id or secret key, a call of request(),
\* update_task_substatus() or update_task_description() ends in the
\* credentials error without sleeping and without a single HTTP dispatch, by
\* that call or by any call before it.
C1_BlankCredentialsFailBeforeNetwork ==
    (BlankCredentials /\ op \in HttpOps) =>
        /\ pc = "idle"
        /\ outcome.kind = "ValueError_credentials"
        /\ attempts = <<>>
        /\ rate_slept = 0
        /\ last_sent = -1

C1_Witness ==
    /\ org_encoded # "" /\ u_encoded # "" /\ secret_key = ""
    /\ op = "update_task_description"
    /\ outcome.kind = "ValueError_credentials"
    /\ ncalls = MaxCalls

CredentialFields == {"org_encoded", "u_encoded", "p_encoded", "secret_key"}
Credential(f) ==
    CASE f = "org_encoded" -> org_encoded
      [] f = "u_encoded" -> u_encoded
      [] f = "p_encoded" -> p_encoded
      [] f = "secret_key" -> secret_key
OnlyBlank(f) ==
    \A g \in CredentialFields : (Credential(g) = "") <=> (g = f)

\* C2: for each of the four credential fields, a connector with only that
\* field empty fails request() with the credentials error before any HTTP
\* dispatch.
C2_EveryRequiredFieldChecked ==
    \A f \in CredentialFields :
        (OnlyBlank(f) /\ op = "request") =>
            /\ pc = "idle"
            /\ outcome.kind = "ValueError_credentials"
            /\ attempts = <<>>

AllFailed == \A i \in 1..Len(attempts) : attempts[i].failed

\* C3: a request() call with retries = N >= 1 whose every HTTP attempt raised
\* a transport failure made exactly N attempts, and raises the exception of
\* the N-th attempt.
C3_LastTransportFailureRaised ==
    (op = "request" /\ pc = "idle" /\ retries >= 1 /\ attempts # <<>> /\ AllFailed) =>
        /\ Len(attempts) = retries
        /\ outcome.kind = "RequestException"
        /\ outcome.error = retries

C3_Witness ==
    /\ op = "request" /\ pc = "idle" /\ retries = DEFAULT_RETRIES
    /\ Len(attempts) = DEFAULT_RETRIES /\ AllFailed
    /\ outcome = [kind |-> "RequestException", error |-> DEFAULT_RETRIES,
                  body |-> NoBody]

\* C4: an attempt of request() or of a write operation that receives a body
\* carrying the error sentinel is the last attempt of its call; no backoff
\* sleep follows it and the call raises the API error.
C4_ApiErrorNotRetried ==
    \A i \in 1..Len(attempts) :
        (op \in HttpOps /\ ~attempts[i].failed /\ Sentinel(attempts[i].body)) =>
            /\ i = Len(attempts)
            /\ attempts[i].slept = 0
            /\ pc = "idle"
            /\ outcome.kind = "ValueError_api"

\* C5: every HTTP attempt carries a timestamp and a signature made inside
\* that attempt: the timestamp is read no earlier than the end of the
\* previous attempt and no later than the dispatch, and no attempt of a call
\* repeats the timestamp or the signature of an earlier attempt of that call.
C5_FreshSignaturePerAttempt ==
    \A i \in 1..Len(attempts) :
        /\ attempts[i].headers.afdatetimeutc <= attempts[i].sent
        /\ i > 1 => attempts[i].headers.afdatetimeutc >= attempts[i - 1].ended
        /\ \A j \in 1..(i - 1) :
            /\ attempts[j].headers.afdatetimeutc # attempts[i].headers.afdatetimeutc
            /\ attempts[j].headers.Authentication # attempts[i].headers.Authentication

C5_Witness ==
    /\ op = "update_task_substatus"
    /\ Len(attempts) = DEFAULT_RETRIES
    /\ attempts[1].failed /\ attempts[2].failed

\* C6: any two consecutive HTTP dispatches of the connector are at least
\* min_request_interval apart.
C6_DispatchesSpaced == gap = -1 \/ gap >= min_request_interval

\* C7: request(), update_task_substatus() and update_task_description() end
\* in the API error whenever the parsed body carries the error sentinel, and
\* return no such body.
C7_SentinelAlwaysRaises ==
    (op \in HttpOps /\ pc = "idle" /\ attempts # <<>>) =>
        LET last == attempts[Len(attempts)] IN
        /\ (~last.failed /\ Sentinel(last.body)) => outcome.kind = "ValueError_api"
        /\ outcome.kind = "returned" => ~Sentinel(outcome.body)

\* C8: update_timesheet_note() ends in the unsupported-operation error with
\* any credentials, makes no HTTP attempt, sleeps neither in the rate limiter
\* nor in a backoff, and leaves the rate-limit watermark as it found it.
C8_TimesheetNoteAlwaysUnsupported ==
    op = "update_timesheet_note" =>
        /\ pc = "idle"
        /\ outcome.kind = "NotImplementedError"
        /\ attempts = <<>>
        /\ rate_slept = 0
        /\ last_request_time = entry.last_request_time

C8_Witness ==
    /\ op = "update_timesheet_note"
    /\ BlankCredentials
    /\ outcome.kind = "NotImplementedError"

(***************************************************************************)
(* Claims about the pagination loop, checked under PagesSpec.              *)
(***************************************************************************)
\* C10: _fetch_all_pages requests pages 1, 2, 3, ... in order; it goes on
\* after a page only if that page yielded items and its number is below the
\* total-page count its response reports, and it stops after the first page
\* that yields no items or whose number has reached the reported count. So it
\* never makes more requests than the largest total-page count reported.
C10_PaginationStops ==
    /\ \A i \in 1..Len(requested) : requested[i] = i
    /\ fetch_pc = "loop" =>
        /\ page = Len(requested) + 1
        /\ requested # <<>> =>
            (ItemsOf(response) > 0 /\ Len(requested) < TotalPagesOf(response))
    /\ fetch_pc = "done" =>
        /\ page = Len(requested)
        /\ (ItemsOf(response) = 0 \/ page >= TotalPagesOf(response))
    /\ Len(requested) <= max_reported

\* The server reports two pages and the second page, which still holds
\* items, is the last one requested.
C10_Witness ==
    /\ fetch_pc = "done"
    /\ requested = <<1, 2>>
    /\ response.totalpages = 2
    /\ ItemsOf(response) = MaxItems

(***************************************************************************)
(* Claims about proofread_and_mark_ready.main, checked under RunSpec.      *)
(***************************************************************************)
\* Step 6 of a run with --apply is over: the manual-corrections list has
\* been printed.
ManualListPrinted ==
    /\ apply_changes
    /\ \/ main_pc = "mark_ready"
       \/ main_pc = "returned" /\ jobs_to_process # <<>>

Listed(j, ts) ==
    \E m \in 1..Len(manual_corrections) :
        manual_corrections[m] =
            [job |-> j, before |-> ts.note, after |-> ts.corrected_note]

NoTimesheetNoteUpdateSent ==
    \A w \in 1..Len(api_writes) : api_writes[w].op # "update_timesheet_note"

\* C9 as stated: a run with --apply sends no timesheet-note update, and once
\* it has printed the manual-corrections list every timesheet note whose
\* corrected text differs from its original text is in the list.
C9_EveryChangedNoteListed ==
    apply_changes =>
        /\ NoTimesheetNoteUpdateSent
        /\ ManualListPrinted =>
            \A j \in 1..Len(jobs_to_process) :
                \A k \in 1..Len(jobs_to_process[j].timesheet_entries) :
                    LET ts == jobs_to_process[j].timesheet_entries[k] IN
                    ts.corrected_note # ts.note => Listed(j, ts)

\* C9 as amended: a run with --apply sends no timesheet-note update, and once
\* it has printed the manual-corrections list every timesheet note whose
\* corrected text differs from its original text and is not empty is in the
\* list.
C9_EveryChangedNonEmptyNoteListed ==
    apply_changes =>
        /\ NoTimesheetNoteUpdateSent
        /\ ManualListPrinted =>
            \A j \in 1..Len(jobs_to_process) :
                \A k \in 1..Len(jobs_to_process[j].timesheet_entries) :
                    LET ts == jobs_to_process[j].timesheet_entries[k] IN
                    (ts.corrected_note # ts.note /\ ts.corrected_note # "")
                        => Listed(j, ts)

\* A run with --apply has returned after updating a description, listing a
\* corrected note and marking the jobs.
C9_Witness ==
    /\ apply_changes /\ main_pc = "returned"
    /\ Len(manual_corrections) = MaxTimesheets
    /\ manual_corrections[1].before = "teh job"
    /\ manual_corrections[1].after = "the job"
    /\ descriptions_fixed >= 1
    /\ marked >= 1

(***************************************************************************)
(* The consumers of a connector response.  Each one is handed the parsed   *)
(* body of a response and takes its records from it.                       *)
(***************************************************************************)
MaxRecords == 2     \* the most records one collection of a body holds
MaxReads == 2       \* responses consumed in one behaviour

\* A parsed body: `envelope` says whether it has the key "zoneresponse";
\* `inside` is the number of records of the consumer's collection inside the
\* envelope, `top` the number under the same key at the top level.
ResponseBodies ==
    {b \in [envelope : BOOLEAN, inside : 0..MaxRecords, top : 0..MaxRecords] :
        ~b.envelope => b.inside = 0}

\* _fetch_all_pages: `if "invoices" in response: items = response["invoices"]`
\* and so on, on the top-level keys of the body only.
fetch_all_pages_items(b) == b.top

\* get_completed_uninvoiced_jobs: zr = response.get("zoneresponse", {});
\* all_tasks = zr.get("tasks", []).
get_completed_uninvoiced_jobs_tasks(b) == IF b.envelope THEN b.inside ELSE 0

\* _attach_timesheet_notes: zr = response.get("zoneresponse", {});
\* timesheets = zr.get("timesheets", []).
attach_timesheet_notes_timesheets(b) == IF b.envelope THEN b.inside ELSE 0

\* get_substatuses: zone_response = response.get("zoneresponse", response);
\* zone_response.get("substatuses", []).
get_substatuses(b) == IF b.envelope THEN b.inside ELSE b.top

\* cmd_mark_ready: zone_response = response.get("zoneresponse", response);
\* tasks = zone_response.get("tasks", []).
cmd_mark_ready_tasks(b) == IF b.envelope THEN b.inside ELSE b.top

Consume(c, b, n) ==
    /\ nreads < MaxReads
    /\ consumer' = c /\ body' = b /\ records_read' = n
    /\ nreads' = nreads + 1
    /\ UNCHANGED besides_consumer

FetchAllPagesReads ==
    \E b \in ResponseBodies :
        Consume("_fetch_all_pages", b, fetch_all_pages_items(b))
UninvoicedJobsReads ==
    \E b \in ResponseBodies :
        Consume("get_completed_uninvoiced_jobs", b,
                get_completed_uninvoiced_jobs_tasks(b))
TimesheetNotesReads ==
    \E b \in ResponseBodies :
        Consume("_attach_timesheet_notes", b,
                attach_timesheet_notes_timesheets(b))
SubstatusesReads ==
    \E b \in ResponseBodies : Consume("get_substatuses", b, get_substatuses(b))
MarkReadyReads ==
    \E b \in ResponseBodies : Consume("cmd_mark_ready", b, cmd_mark_ready_tasks(b))

LegacyIdle == ConnectorIdle /\ PagesIdle /\ RunIdle
ConsumersSpecInit ==
    LegacyIdle /\ ConsumersIdle /\ ReportIdle /\ CheckIdle
        /\ BatchIdle /\ GrammarIdle /\ TailIdle
ConsumersNext ==
    \/ FetchAllPagesReads
    \/ UninvoicedJobsReads
    \/ TimesheetNotesReads
    \/ SubstatusesReads
    \/ MarkReadyReads
ConsumersSpec == ConsumersSpecInit /\ [][ConsumersNext]_vars

\* The records the response-unwrapping rule designates: those inside the
\* envelope when the body has one, those at the top level when it has none.
Payload(b) == IF b.envelope THEN b.inside ELSE b.top

\* C11: every consumer of a connector response reads its records from inside
\* the zoneresponse envelope when the envelope is present and from the
\* top-level body when it is absent.
C11_ConsumersUnwrapEnvelope ==
    consumer # "none" => records_read = Payload(body)

(***************************************************************************)
(* MonthlyMetrics.calculate_derived_metrics and the invoice loop of        *)
(* DataExtractor.get_monthly_report.  Amounts are exact numbers (integers);*)
(* a quotient is kept as an exact fraction.                                *)
(***************************************************************************)
MaxAmount == 2      \* the largest amount of an invoice or an accumulator
MaxInvoices == 3    \* the most invoices the pagination returns

\* The exception a division by zero raises, kept apart from every fraction
\* by its denominator.
ZeroDivisionError == [num |-> 0, den |-> 0]

\* a / b as Python evaluates it.
Quotient(a, b) == IF b = 0 THEN ZeroDivisionError ELSE [num |-> a, den |-> b]
\* q * 100.
Times100(q) == [num |-> q.num * 100, den |-> q.den]

AnyDenominator(d) == TRUE
\* The guard of each division: `if self.revenue > 0`, `if
\* self.completed_jobs > 0`, `if self.jobs_total > 0`.
PositiveDenominator(d) == d > 0

\* calculate_derived_metrics, statement by statement.  The result is the
\* object as the call leaves it and whether the call raised; a statement
\* that raises leaves the later fields as they were.
calculate_derived_metrics(m) ==
    LET m1 == [m EXCEPT
                 !.gross_profit_dollars = m.revenue - m.materials_cost,
                 !.net_profit_dollars =
                     m.revenue - m.materials_cost - m.labour_cost]
        gross == Quotient(m1.gross_profit_dollars, m1.revenue)
        net == Quotient(m1.net_profit_dollars, m1.revenue)
        m2 == IF PositiveDenominator(m1.revenue)
              THEN [m1 EXCEPT !.gross_profit_percent = Times100(gross),
                              !.net_profit_percent = Times100(net)]
              ELSE [m1 EXCEPT !.gross_profit_percent = Zero,
                              !.net_profit_percent = Zero]
        average == Quotient(m1.revenue, m1.completed_jobs)
        m3 == IF PositiveDenominator(m1.completed_jobs)
              THEN [m2 EXCEPT !.average_job_value = average]
              ELSE [m2 EXCEPT !.average_job_value = Zero]
        m4 == [m3 EXCEPT !.jobs_total =
                             m.primary_client_value + m.other_client_value]
        primary == Quotient(m4.primary_client_value, m4.jobs_total)
        other == Quotient(m4.other_client_value, m4.jobs_total)
        m5 == IF PositiveDenominator(m4.jobs_total)
              THEN [m4 EXCEPT !.primary_client_percent = Times100(primary),
                              !.other_client_percent = Times100(other)]
              ELSE [m4 EXCEPT !.primary_client_percent = Zero,
                              !.other_client_percent = Zero]
    IN  IF PositiveDenominator(m1.revenue) /\ gross = ZeroDivisionError
        THEN [m |-> m1, raised |-> TRUE]
        ELSE IF PositiveDenominator(m1.completed_jobs)
                /\ average = ZeroDivisionError
        THEN [m |-> m2, raised |-> TRUE]
        ELSE IF PositiveDenominator(m4.jobs_total)
                /\ primary = ZeroDivisionError
        THEN [m |-> m4, raised |-> TRUE]
        ELSE [m |-> m5, raised |-> FALSE]

\* Strings are sequences of characters.  The letters that occur in the
\* model, in lower and in upper case; every other character has no case.
LowerLetters ==
    <<"a", "b", "c", "d", "e", "f", "h", "i", "m", "n", "o", "s", "t">>
UpperLetters ==
    <<"A", "B", "C", "D", "E", "F", "H", "I", "M", "N", "O", "S", "T">>
islower(ch) == \E i \in DOMAIN LowerLetters : LowerLetters[i] = ch
isupper(ch) == \E i \in DOMAIN UpperLetters : UpperLetters[i] = ch
\* str.lower and str.upper on one character.
Lower(ch) ==
    IF isupper(ch)
    THEN LowerLetters[CHOOSE i \in DOMAIN UpperLetters : UpperLetters[i] = ch]
    ELSE ch
Upper(ch) ==
    IF islower(ch)
    THEN UpperLetters[CHOOSE i \in DOMAIN LowerLetters : LowerLetters[i] = ch]
    ELSE ch
LowerStr(str) == [i \in 1..Len(str) |-> Lower(str[i])]
\* Python's `needle in hay`.
Contains(needle, hay) ==
    \E i \in 0..(Len(hay) - Len(needle)) :
        SubSeq(hay, i + 1, i + Len(needle)) = needle

PrimaryClients == {<<>>, <<"A", "c">>}
ClientNames == {<<>>, <<"a", "c", "m", "e">>, <<"B", "o", "b">>}

\* _is_primary_client.
is_primary_client(client_name) ==
    IF client_name = <<>> \/ primary_client = <<>>
    THEN FALSE
    ELSE Contains(LowerStr(primary_client), LowerStr(client_name))

\* An invoice as the report reads it: its total, the materials and labour
\* sums _process_invoice_line_items derives from its line items, and the
\* two places a client name may stand at.
Invoices ==
    [totalexgst : -1..MaxAmount, materials : 0..1, labour : 0..1,
     clientname : ClientNames, client_name : ClientNames]

\* invoice.get("clientname", "") or invoice.get("client", {}).get("name", "")
ClientNameOf(invoice) ==
    IF invoice.clientname # <<>> THEN invoice.clientname
    ELSE invoice.client_name

OtherAlwaysCredited(m, total_ex_gst, is_primary) ==
    m.other_client_value + total_ex_gst
\* metrics.other_client_value after the if/else of the loop body.
other_client_value_after(m, total_ex_gst, is_primary) ==
    IF is_primary THEN m.other_client_value
    ELSE m.other_client_value + total_ex_gst

\* get_monthly_report up to the loop: a fresh MonthlyMetrics and the list
\* the pagination returned.
ReportInit ==
    /\ primary_client \in PrimaryClients
    /\ metrics = NewMetrics
    /\ report_pc = "loop"
    /\ invoices_left \in 0..MaxInvoices
    /\ derived_raised = FALSE

\* One iteration of `for invoice in invoices`.
ProcessInvoice ==
    /\ report_pc = "loop" /\ invoices_left > 0
    /\ \E invoice \in Invoices :
         LET total_ex_gst == invoice.totalexgst
             is_primary == is_primary_client(ClientNameOf(invoice))
         IN  metrics' =
               [metrics EXCEPT
                  !.revenue = @ + total_ex_gst,
                  !.materials_cost = @ + invoice.materials,
                  !.labour_cost = @ + invoice.labour,
                  !.completed_jobs = @ + 1,
                  !.primary_client_jobs = IF is_primary THEN @ + 1 ELSE @,
                  !.primary_client_value =
                      IF is_primary THEN @ + total_ex_gst ELSE @,
                  !.other_client_jobs = IF is_primary THEN @ ELSE @ + 1,
                  !.other_client_value =
                      other_client_value_after(metrics, total_ex_gst,
                                               is_primary)]
    /\ invoices_left' = invoices_left - 1
    /\ UNCHANGED <<primary_client, report_pc, derived_raised>>
    /\ UNCHANGED besides_report

\* The loop is over.
LoopEnds ==
    /\ report_pc = "loop" /\ invoices_left = 0
    /\ report_pc' = "derive"
    /\ UNCHANGED <<primary_client, metrics, invoices_left, derived_raised>>
    /\ UNCHANGED besides_report

\* metrics.calculate_derived_metrics()
CalculateDerivedMetrics ==
    /\ report_pc = "derive"
    /\ metrics' = calculate_derived_metrics(metrics).m
    /\ derived_raised' = calculate_derived_metrics(metrics).raised
    /\ report_pc' = "returned"
    /\ UNCHANGED <<primary_client, invoices_left>>
    /\ UNCHANGED besides_report

ReportSpecInit ==
    LegacyIdle /\ ConsumersIdle /\ ReportInit /\ CheckIdle
        /\ BatchIdle /\ GrammarIdle /\ TailIdle
ReportNext == ProcessInvoice \/ LoopEnds \/ CalculateDerivedMetrics
ReportSpec == ReportSpecInit /\ [][ReportNext]_vars

\* calculate_derived_metrics called on an object with any accumulators.
MetricsInit ==
    /\ primary_client = <<>>
    /\ \E revenue \in -1..MaxAmount, materials_cost \in 0..1,
          labour_cost \in 0..1, completed_jobs \in 0..1,
          primary_client_value \in -1..MaxAmount,
          other_client_value \in -1..MaxAmount :
         metrics = [NewMetrics EXCEPT
                      !.revenue = revenue,
                      !.materials_cost = materials_cost,
                      !.labour_cost = labour_cost,
                      !.completed_jobs = completed_jobs,
                      !.primary_client_value = primary_client_value,
                      !.other_client_value = other_client_value]
    /\ report_pc = "derive"
    /\ invoices_left = 0
    /\ derived_raised = FALSE
MetricsSpecInit ==
    LegacyIdle /\ ConsumersIdle /\ MetricsInit /\ CheckIdle
        /\ BatchIdle /\ GrammarIdle /\ TailIdle
MetricsNext == CalculateDerivedMetrics
MetricsSpec == MetricsSpecInit /\ [][MetricsNext]_vars

\* C12: after get_monthly_report over any fetched invoices,
\* primary_client_value + other_client_value = revenue, every invoice having
\* been counted in exactly one of the two client buckets.
C12_ClientValuesSumToRevenue ==
    report_pc = "returned" =>
        /\ metrics.primary_client_value + metrics.other_client_value
              = metrics.revenue
        /\ metrics.primary_client_jobs + metrics.other_client_jobs
              = metrics.completed_jobs
C12_Witness ==
    /\ report_pc = "returned"
    /\ metrics.primary_client_jobs > 0 /\ metrics.other_client_jobs > 0
    /\ metrics.primary_client_value > 0 /\ metrics.other_client_value > 0

\* C13: calculate_derived_metrics never raises, whatever the accumulators:
\* the profit percentages are 0 when revenue is 0, the average job value is
\* 0 when completed_jobs is 0, and the client percentages are 0 when
\* jobs_total is 0.
C13_NoDivisionByZero ==
    report_pc = "returned" =>
        /\ ~derived_raised
        /\ metrics.revenue = 0 =>
              /\ metrics.gross_profit_percent = Zero
              /\ metrics.net_profit_percent = Zero
        /\ metrics.completed_jobs = 0 => metrics.average_job_value = Zero
        /\ metrics.jobs_total = 0 =>
              /\ metrics.primary_client_percent = Zero
              /\ metrics.other_client_percent = Zero
C13_Witness ==
    /\ report_pc = "returned"
    /\ metrics.revenue = 0 /\ metrics.completed_jobs = 0
    /\ metrics.jobs_total = 0 /\ metrics.materials_cost > 0
    /\ metrics.primary_client_value # 0

(***************************************************************************)
(* The text corrector: Proofreader._check_text, the custom correction pass *)
(* and the match loop of _check_text_languagetool_api, and the two local   *)
(* checkers.  The grammar service and the dictionaries of the local        *)
(* checkers are inputs: any answer they can give is allowed.               *)
(***************************************************************************)
MaxMatches == 2     \* the most matches one answer of the service lists

\* s[a:b] and s[a:] of Python, for 0 <= a.
PySlice(s, a, b) ==
    LET hi == IF b < Len(s) THEN b ELSE Len(s)
    IN  IF a >= hi THEN <<>> ELSE SubSeq(s, a + 1, hi)
PyFrom(s, a) == PySlice(s, a, Len(s))

IsSpace(ch) == ch = " "
\* \w and [a-zA-Z] of the regular expressions, on the characters modelled.
IsWordChar(ch) == islower(ch) \/ isupper(ch)
NotSpace(ch) == ~IsSpace(ch)

RECURSIVE lstrip(_)
lstrip(s) == IF s # <<>> /\ IsSpace(Head(s)) THEN lstrip(Tail(s)) ELSE s
RECURSIVE rstrip(_)
rstrip(s) ==
    IF s # <<>> /\ IsSpace(s[Len(s)])
    THEN rstrip(SubSeq(s, 1, Len(s) - 1))
    ELSE s
\* str.strip
strip(s) == rstrip(lstrip(s))

\* str.capitalize: the first character in upper case, the rest in lower.
capitalize(s) ==
    IF s = <<>> THEN s ELSE <<Upper(Head(s))>> \o LowerStr(Tail(s))

\* list.reverse
Reverse(seq) == [i \in 1..Len(seq) |-> seq[Len(seq) + 1 - i]]

\* The maximal runs of flagged positions of a string, as <<start, length>>
\* with a 0-based start; in_class[k] says whether character k is of the class
\* looked for.
Runs(in_class) ==
    {sp \in (0..(Len(in_class) - 1)) \X (1..Len(in_class)) :
        /\ sp[1] + sp[2] <= Len(in_class)
        /\ \A k \in (sp[1] + 1)..(sp[1] + sp[2]) : in_class[k]
        /\ sp[1] = 0 \/ ~in_class[sp[1]]
        /\ sp[1] + sp[2] = Len(in_class) \/ ~in_class[sp[1] + sp[2] + 1]}
\* The tokens of s, and its runs of letters (r'\b[a-zA-Z]+\b').
TokenRuns(s) == Runs([k \in 1..Len(s) |-> NotSpace(s[k])])
WordRuns(s) == Runs([k \in 1..Len(s) |-> IsWordChar(s[k])])

\* Four entries of CUSTOM_CORRECTIONS, in the order of the table.
CUSTOM_CORRECTIONS ==
    <<[misspelling |-> <<"h", "a", "s", "s">>, correction |-> <<"H", "a", "a", "s">>],
      [misspelling |-> <<"a", "n", "d", "i">>, correction |-> <<"a", "n", "d", " ", "I">>],
      [misspelling |-> <<"t", "e", "h">>, correction |-> <<"t", "h", "e">>],
      [misspelling |-> <<"f", "o">>, correction |-> <<"o", "f">>]>>

\* The 0-based starts of the matches of r'\b' + misspelling + r'\b' with
\* re.IGNORECASE in s.
MatchStarts(misspelling, s) ==
    {i \in 0..(Len(s) - Len(misspelling)) :
        /\ LowerStr(PySlice(s, i, i + Len(misspelling))) = misspelling
        /\ i = 0 \/ ~IsWordChar(s[i])
        /\ i + Len(misspelling) = Len(s)
             \/ ~IsWordChar(s[i + Len(misspelling) + 1])}

\* The replacement of one match: `if original[0].isupper() and
\* correction[0].islower(): replacement = correction.capitalize()`.
CaseReplacement(original, correction) ==
    IF isupper(original[1]) /\ islower(correction[1])
    THEN capitalize(correction)
    ELSE correction

\* `for m in reversed(matches)`: the matches of one entry replaced, the
\* rightmost first.
RECURSIVE ReplaceMatches(_, _, _)
ReplaceMatches(s, starts, table_entry) ==
    IF starts = {} THEN s
    ELSE LET i == CHOOSE x \in starts : \A y \in starts : y <= x
             n == Len(table_entry.misspelling)
             original == PySlice(s, i, i + n)
         IN  ReplaceMatches(
                 PySlice(s, 0, i)
                     \o CaseReplacement(original, table_entry.correction)
                     \o PyFrom(s, i + n),
                 starts \ {i}, table_entry)

\* `for misspelling, correction in self.CUSTOM_CORRECTIONS.items()`, from
\* entry k of the table on.
RECURSIVE CustomPassFrom(_, _)
CustomPassFrom(s, k) ==
    IF k > Len(CUSTOM_CORRECTIONS) THEN s
    ELSE CustomPassFrom(
             ReplaceMatches(s, MatchStarts(CUSTOM_CORRECTIONS[k].misspelling, s),
                            CUSTOM_CORRECTIONS[k]),
             k + 1)
\* The custom correction pass (stage 1).
custom_corrections(s) == CustomPassFrom(s, 1)

\* The members of the filter sets of the match loop that can be spelled
\* with the characters of the model.
SkippedRules == {"WHITESPACE_RULE", "UPPERCASE_SENTENCE_START"}
TRADE_TERMS == {<<"d", "b">>, <<"h", "a", "s", "s">>, <<"h", "a", "a", "s">>}
PROTECTED_WORDS ==
    {<<"t", "h", "e">>, <<"o", "f">>, <<"a", "n", "d">>, <<"h", "a", "s">>,
     <<"h", "a", "d">>, <<"i", "s">>, <<"i", "t">>, <<"a", "t">>,
     <<"o", "n">>, <<"i", "n", "t", "o">>}
REJECT_SUGGESTIONS ==
    [w \in {<<"h", "a", "a", "s">>,
     <<"h", "a", "s", "s">>} |-> {<<"h", "a", "s">>}]
common_words_to_skip ==
    {<<"a">>, <<"a", "n">>, <<"o", "f">>, <<"t", "h", "e">>,
     <<"a", "n", "d">>, <<"i", "s">>, <<"i", "t">>, <<"a", "t">>,
     <<"o", "n">>, <<"i", "n", "t", "o">>}
bad_replacements ==
    {<<"o", "f">>, <<"o", "n">>, <<"a", "n">>, <<"a", "t">>,
     <<"n", "o", "t">>, <<"f", "o">>, <<"n", "t", "o">>}
\* The characters of [bcdfghjklmnpqrstvwxz] among the letters of the model.
Consonants == {"b", "c", "d", "f", "h", "m", "n", "s", "t"}
ApostropheS == <<"'", "s">>
EndsWith(s, suffix) ==
    Len(s) >= Len(suffix) /\ PyFrom(s, Len(s) - Len(suffix)) = suffix
\* regex_module.match(r'^[bcdfghjklmnpqrstvwxz]{3,}', s.lower())
StartsWithConsonants(s) ==
    Len(s) >= 3 /\ \A k \in 1..3 : Lower(s[k]) \in Consonants
CustomCorrectionFor(word) ==
    LET k == CHOOSE k \in DOMAIN CUSTOM_CORRECTIONS :
                 CUSTOM_CORRECTIONS[k].misspelling = word
    IN  CUSTOM_CORRECTIONS[k].correction
InCustomCorrections(word) ==
    \E k \in DOMAIN CUSTOM_CORRECTIONS : CUSTOM_CORRECTIONS[k].misspelling = word

\* The body of the match loop up to `errors.append`: whether the match is
\* skipped (`continue`) and, when it is not, its remaining suggestions.
Filtered(pre, match) ==
    LET flagged_word ==
            strip(LowerStr(PySlice(pre, match.offset,
                                   match.offset + match.length)))
        s0 == PySlice(match.replacements, 0, 3)
        has_rejects == flagged_word \in DOMAIN REJECT_SUGGESTIONS
        NotRejected(x) == x \notin REJECT_SUGGESTIONS[flagged_word]
        s1 == IF has_rejects THEN SelectSeq(s0, NotRejected) ELSE s0
        plain == ~EndsWith(flagged_word, ApostropheS)
        NoApostropheS(x) == ~Contains(ApostropheS, x)
        s2 == IF plain THEN SelectSeq(s1, NoApostropheS) ELSE s1
        NotBad(x) == LowerStr(x) \notin bad_replacements
        s3 == SelectSeq(s2, NotBad)
        NotConsonants(x) == ~StartsWithConsonants(x)
        s4 == SelectSeq(s3, NotConsonants)
        custom == CustomCorrectionFor(flagged_word)
        NotCustom(x) == LowerStr(x) # LowerStr(custom)
        s5 == IF InCustomCorrections(flagged_word)
              THEN <<custom>> \o SelectSeq(s4, NotCustom)
              ELSE s4
        skip ==
            \/ match.rule_id \in SkippedRules
            \/ flagged_word \in TRADE_TERMS
            \/ flagged_word \in PROTECTED_WORDS
            \/ has_rejects /\ s1 = <<>>
            \/ plain /\ s2 = <<>>
            \/ flagged_word \in common_words_to_skip
            \/ s3 = <<>>
            \/ s4 = <<>>
    IN  [skip |-> skip, suggestions |-> IF skip THEN <<>> ELSE s5]

\* corrected[:offset] + suggestions[0] + corrected[offset+length:]
Substitute(working, match, suggestion) ==
    PySlice(working, 0, match.offset) \o suggestion
        \o PyFrom(working, match.offset + match.length)

\* The replacement lists and rule ids a match of the service may carry: no
\* replacement, the empty string, a suggestion the loop filters out followed
\* by one it keeps, and a suggestion it filters out alone.
ReplacementLists ==
    {<<>>, <<<<>>>>, <<<<"b", "b", "b">>, <<"a", "b">>>>, <<<<"b", "'", "s">>>>}
RuleIds == {"WHITESPACE_RULE", "MORFOLOGIK_RULE_EN_AU"}
\* The matches the service may report on s: a match spans one token of s or
\* the whole of s.
MatchesOn(s) ==
    {[offset |-> sp[1], length |-> sp[2], replacements |-> r, rule_id |-> id] :
        sp \in TokenRuns(s) \cup {<<0, Len(s)>>},
        r \in ReplacementLists, id \in RuleIds}

\* The texts _check_text is called with.
CheckTexts ==
    {<<>>, <<" ">>, <<"f", "o">>, <<"T", "e", "h">>, <<"A", "n", "d", "i">>,
     <<"h", "a", "s", "s">>}
\* Texts the custom pass leaves alone, for the match loop.
MatchLoopTexts == {<<"a", " ", "b", "b">>, <<"A", "b">>}
\* The exceptions the remote check raises: requests.post fails, or
\* raise_for_status() after the last attempt.
ServiceErrors == {"ConnectionError", "HTTPError"}

\* `if not text.strip(): return text, []`
ReturnBlank ==
    /\ check_pc = "start" /\ strip(input_text) = <<>>
    /\ corrected' = input_text /\ errors' = <<>>
    /\ check_pc' = "returned"
    /\ UNCHANGED <<input_text, spellchecker_available,
                   language_tool_available, pre_corrected, matches, match_i,
                   service_error, local_input, raised_error>>
    /\ UNCHANGED besides_check

\* _check_text_languagetool_api up to the request: the custom pass.
CustomCorrections ==
    /\ check_pc = "start" /\ strip(input_text) # <<>>
    /\ pre_corrected' = custom_corrections(input_text)
    /\ check_pc' = "post"
    /\ UNCHANGED <<input_text, spellchecker_available,
                   language_tool_available, matches, match_i, corrected,
                   errors, service_error, local_input, raised_error>>
    /\ UNCHANGED besides_check

\* The request fails: the exception reaches `except Exception` in
\* _check_text.
ServiceFails ==
    /\ check_pc = "post"
    /\ service_error' \in ServiceErrors
    /\ check_pc' = "fallback"
    /\ UNCHANGED <<input_text, spellchecker_available,
                   language_tool_available, pre_corrected, matches, match_i,
                   corrected, errors, local_input, raised_error>>
    /\ UNCHANGED besides_check

\* The service answers 200 with a list of at most n matches.
ReceiveMatches(n) ==
    /\ check_pc = "post"
    /\ matches' \in SeqsUpTo(MatchesOn(pre_corrected), n)
    /\ match_i' = Len(matches')
    /\ corrected' = pre_corrected /\ errors' = <<>>
    /\ check_pc' = "matches"
    /\ UNCHANGED <<input_text, spellchecker_available,
                   language_tool_available, pre_corrected, service_error,
                   local_input, raised_error>>
    /\ UNCHANGED besides_check

\* One iteration of `for match in reversed(matches)`.
ProcessMatch ==
    /\ check_pc = "matches" /\ match_i > 0
    /\ LET match == matches[match_i]
           f == Filtered(pre_corrected, match)
       IN  IF f.skip
           THEN UNCHANGED <<corrected, errors>>
           ELSE /\ errors' = Append(errors,
                                    [offset |-> match.offset,
                                     length |-> match.length,
                                     suggestions |-> f.suggestions])
                /\ corrected' = Substitute(corrected, match, f.suggestions[1])
    /\ match_i' = match_i - 1
    /\ UNCHANGED <<input_text, spellchecker_available,
                   language_tool_available, check_pc, pre_corrected, matches,
                   service_error, local_input, raised_error>>
    /\ UNCHANGED besides_check

\* errors.reverse(); return corrected, errors
ReturnCorrected ==
    /\ check_pc = "matches" /\ match_i = 0
    /\ errors' = Reverse(errors)
    /\ check_pc' = "returned"
    /\ UNCHANGED <<input_text, spellchecker_available,
                   language_tool_available, pre_corrected, matches, match_i,
                   corrected, service_error, local_input, raised_error>>
    /\ UNCHANGED besides_check

\* The corrections the dictionary of pyspellchecker may propose.
SpellCorrections == {<<"t", "h", "e">>, <<"o", "f">>, <<"a", "n", "d">>}
\* re.sub(r'\b' + word + r'\b', correction, s, count=1): the first whole-word
\* occurrence of word, in this very case, replaced.
SubFirst(word, correction, s) ==
    LET starts == {i \in MatchStarts(LowerStr(word), s) :
                      PySlice(s, i, i + Len(word)) = word}
        i == CHOOSE x \in starts : \A y \in starts : x <= y
    IN  IF starts = {} THEN s
        ELSE PySlice(s, 0, i) \o correction \o PyFrom(s, i + Len(word))

\* _check_text_spellchecker on s.  spell.unknown(words) returns the unknown
\* words in lower case; verdict[w] is spell.correction(w) for an unknown
\* word w and NoText for a known one.
RECURSIVE SpellLoop(_, _, _)
SpellLoop(st, words, verdict) ==
    IF words = {} THEN st
    ELSE LET word == CHOOSE w \in words : TRUE
             correction == verdict[word]
             skip == \/ correction = NoText
                     \/ Len(word) <= 2
                     \/ LowerStr(correction) = LowerStr(word)
             next ==
                 IF skip THEN st
                 ELSE [corrected |-> SubFirst(word, correction, st.corrected),
                       errors |-> Append(st.errors,
                                         [offset |-> -1, length |-> Len(word),
                                          suggestions |-> <<correction>>])]
         IN  SpellLoop(next, words \ {word}, verdict)
WordsOf(s) ==
    {LowerStr(PySlice(s, sp[1], sp[1] + sp[2])) : sp \in WordRuns(s)}
check_text_spellchecker(s, verdict) ==
    SpellLoop([corrected |-> s, errors |-> <<>>], WordsOf(s), verdict)

\* _check_text_language_tool on s, the tool reporting `found`: no match or
\* one; language_tool_python.utils.correct applies its first replacement.
check_text_language_tool(s, found) ==
    IF found = <<>> THEN [corrected |-> s, errors |-> <<>>]
    ELSE [corrected |->
              IF found[1].replacements = <<>> THEN s
              ELSE Substitute(s, found[1], found[1].replacements[1]),
          errors |-> <<[offset |-> found[1].offset,
                        length |-> found[1].length,
                        suggestions |-> PySlice(found[1].replacements, 0, 3)]>>]

\* `if SPELLCHECKER_AVAILABLE: return self._check_text_spellchecker(text)`
SpellcheckerFallback ==
    /\ check_pc = "fallback" /\ spellchecker_available
    /\ local_input' = input_text
    /\ \E verdict \in [WordsOf(input_text) -> SpellCorrections \cup {NoText}] :
         /\ corrected' = check_text_spellchecker(input_text, verdict).corrected
         /\ errors' = check_text_spellchecker(input_text, verdict).errors
    /\ check_pc' = "returned"
    /\ UNCHANGED <<input_text, spellchecker_available,
                   language_tool_available, pre_corrected, matches, match_i,
                   service_error, raised_error>>
    /\ UNCHANGED besides_check

\* `if LANGUAGE_TOOL_AVAILABLE: return self._check_text_language_tool(text)`
LanguageToolFallback ==
    /\ check_pc = "fallback" /\ ~spellchecker_available
    /\ language_tool_available
    /\ local_input' = input_text
    /\ \E found \in SeqsUpTo(MatchesOn(input_text), 1) :
         /\ corrected' = check_text_language_tool(input_text, found).corrected
         /\ errors' = check_text_language_tool(input_text, found).errors
    /\ check_pc' = "returned"
    /\ UNCHANGED <<input_text, spellchecker_available,
                   language_tool_available, pre_corrected, matches, match_i,
                   service_error, raised_error>>
    /\ UNCHANGED besides_check

\* raise RuntimeError("No spell checker available. ...")
RaiseNoChecker ==
    /\ check_pc = "fallback" /\ ~spellchecker_available
    /\ ~language_tool_available
    /\ raised_error' = "RuntimeError"
    /\ check_pc' = "raised"
    /\ UNCHANGED <<input_text, spellchecker_available,
                   language_tool_available, pre_corrected, matches, match_i,
                   corrected, errors, service_error, local_input>>
    /\ UNCHANGED besides_check

\* _check_text called with any of the texts, whatever checkers are installed.
CheckInit ==
    /\ input_text \in CheckTexts
    /\ spellchecker_available \in BOOLEAN
    /\ language_tool_available \in BOOLEAN
    /\ check_pc = "start"
    /\ pre_corrected = <<>> /\ matches = <<>> /\ match_i = 0
    /\ corrected = <<>> /\ errors = <<>> /\ service_error = "none"
    /\ local_input = NoText /\ raised_error = "none"
CheckSpecInit ==
    LegacyIdle /\ ConsumersIdle /\ ReportIdle /\ CheckInit
        /\ BatchIdle /\ GrammarIdle /\ TailIdle
CheckNext ==
    \/ ReturnBlank
    \/ CustomCorrections
    \/ ServiceFails
    \/ ReceiveMatches(1)
    \/ ProcessMatch
    \/ ReturnCorrected
    \/ SpellcheckerFallback
    \/ LanguageToolFallback
    \/ RaiseNoChecker
CheckSpec == CheckSpecInit /\ [][CheckNext]_vars

\* The match loop of _check_text_languagetool_api on the answers of the
\* service with up to MaxMatches matches.
MatchLoopInit ==
    /\ input_text \in MatchLoopTexts
    /\ spellchecker_available = TRUE
    /\ language_tool_available = FALSE
    /\ check_pc = "start"
    /\ pre_corrected = <<>> /\ matches = <<>> /\ match_i = 0
    /\ corrected = <<>> /\ errors = <<>> /\ service_error = "none"
    /\ local_input = NoText /\ raised_error = "none"
MatchLoopSpecInit ==
    LegacyIdle /\ ConsumersIdle /\ ReportIdle /\ MatchLoopInit
        /\ BatchIdle /\ GrammarIdle /\ TailIdle
MatchLoopNext ==
    \/ CustomCorrections
    \/ ReceiveMatches(MaxMatches)
    \/ ProcessMatch
    \/ ReturnCorrected
MatchLoopSpec == MatchLoopSpecInit /\ [][MatchLoopNext]_vars

\* C14: the diagnostics list the text corrector returns is in reading order:
\* whatever list of matches the service returned, the offsets of the
\* diagnostics are non-decreasing.
C14_DiagnosticsInReadingOrder ==
    check_pc = "returned" =>
        \A i, j \in DOMAIN errors :
            i < j => errors[i].offset <= errors[j].offset

\* C15: the surviving matches are applied in descending offset order, and
\* when a match is applied the characters of the working text at
\* [offset, offset+length) are still the flagged span of the stage-1 text,
\* for every list of matches, overlapping spans included.
C15_SpansValidWhenApplied ==
    [][(check_pc = "matches" /\ Len(errors') > Len(errors)) =>
          LET match == matches[match_i]
          IN  /\ PySlice(corrected, match.offset, match.offset + match.length)
                   = PySlice(pre_corrected, match.offset,
                             match.offset + match.length)
              /\ errors # <<>> =>
                     match.offset <= errors[Len(errors)].offset]_vars

\* The correction with its first character in upper case and the others as
\* they are.
FirstUppercased(correction) == <<Upper(Head(correction))>> \o Tail(correction)

\* C16: in the custom correction pass a whole-word match that starts in
\* upper case, of an entry whose correction starts in lower case, is
\* replaced by the correction with only its first character uppercased; a
\* match that starts in lower case is replaced by the correction verbatim.
C16_CasePreservingCorrection ==
    check_pc = "post" =>
        \A k \in DOMAIN CUSTOM_CORRECTIONS :
            LET misspelling == CUSTOM_CORRECTIONS[k].misspelling
                correction == CUSTOM_CORRECTIONS[k].correction
            IN  LowerStr(input_text) = misspelling =>
                    IF isupper(input_text[1]) /\ islower(correction[1])
                    THEN pre_corrected = FirstUppercased(correction)
                    ELSE islower(input_text[1]) => pre_corrected = correction

\* C17: when the remote grammar check fails, _check_text returns the result
\* of the local spell checker if that checker is available, and if no local
\* checker is available the error it raises is the error of the grammar
\* service.
C17_FallbackOrUnderlyingError ==
    service_error # "none" =>
        /\ spellchecker_available => check_pc # "raised"
        /\ check_pc = "raised" => raised_error = service_error

\* C18: on the degraded path the local spell check operates on the output of
\* the custom pass, so a table misspelling of the input is corrected in the
\* result whether or not the grammar service is reachable.
C18_FallbackSeesCustomPass ==
    (check_pc = "returned" /\ spellchecker_available
         /\ local_input # NoText) =>
        /\ local_input = custom_corrections(input_text)
        /\ \A k \in DOMAIN CUSTOM_CORRECTIONS :
               MatchStarts(CUSTOM_CORRECTIONS[k].misspelling, input_text) # {}
                   => MatchStarts(CUSTOM_CORRECTIONS[k].misspelling,
                                  corrected) = {}

(***************************************************************************)
(* Proofreader.proofread_uninvoiced_jobs: the batch loop over the jobs     *)
(* get_completed_uninvoiced_jobs returned.                                 *)
(***************************************************************************)
MaxJobs == 3        \* the most jobs a batch holds

\* What proofread_job returns: a result for a job without text, a result
\* without errors, a result with errors.
ProofreadResults == {"no_text", "ok", "has_errors"}

\* jobs = self.extractor.get_completed_uninvoiced_jobs()
BatchInit ==
    /\ njobs \in 0..MaxJobs /\ job_i = 0 /\ results = <<>>
    /\ batch_pc = "loop" /\ raised_at = 0

\* `if not jobs: return []`
NoJobs ==
    /\ batch_pc = "loop" /\ njobs = 0
    /\ batch_pc' = "returned"
    /\ UNCHANGED <<njobs, job_i, results, raised_at>>
    /\ UNCHANGED besides_batch

\* result = self.proofread_job(job); results.append(result)
ProofreadJobReturns ==
    /\ batch_pc = "loop" /\ job_i < njobs
    /\ \E result \in ProofreadResults : results' = Append(results, result)
    /\ job_i' = job_i + 1
    /\ UNCHANGED <<njobs, batch_pc, raised_at>>
    /\ UNCHANGED besides_batch

\* self.proofread_job(job) raises: _check_text raised and neither
\* proofread_job nor the loop catches it.
ProofreadJobRaises ==
    /\ batch_pc = "loop" /\ job_i < njobs
    /\ job_i' = job_i + 1
    /\ raised_at' = job_i + 1
    /\ batch_pc' = "raised"
    /\ UNCHANGED <<njobs, results>>
    /\ UNCHANGED besides_batch

\* return results
BatchReturns ==
    /\ batch_pc = "loop" /\ njobs > 0 /\ job_i = njobs
    /\ batch_pc' = "returned"
    /\ UNCHANGED <<njobs, job_i, results, raised_at>>
    /\ UNCHANGED besides_batch

BatchSpecInit ==
    LegacyIdle /\ ConsumersIdle /\ ReportIdle /\ CheckIdle
        /\ BatchInit /\ GrammarIdle /\ TailIdle
BatchNext ==
    \/ NoJobs
    \/ ProofreadJobReturns
    \/ ProofreadJobRaises
    \/ BatchReturns
BatchSpec == BatchSpecInit /\ [][BatchNext]_vars

\* C19: in a batch run, if proofreading job i raises an error, every job
\* after i is still proofread and the batch returns results for them.
C19_BatchSurvivesFailingJob ==
    (batch_pc \in {"returned", "raised"} /\ raised_at > 0) =>
        /\ job_i = njobs
        /\ batch_pc = "returned"
        /\ Len(results) = njobs - 1

(***************************************************************************)
(* The requests one Proofreader sends to the grammar service: the rate     *)
(* limit and the retry loop of _check_text_languagetool_api.               *)
(***************************************************************************)
MaxChecks == 2      \* checks one Proofreader makes in one behaviour
MaxDelay == 1       \* ticks a POST takes to be answered or to fail
MaxPause == 2       \* ticks the caller lets pass between checks

max_retries == 3
\* The 1.5 seconds of the rate limit, in ticks.
api_spacing == (3 * TicksPerSecond) \div 2
RetriedStatuses == {429, 500, 502, 503}
\* The statuses the service answers with.
Statuses == {200, 400, 429, 503, 504}

\* __init__ sets the watermark to 0; the clock is past it by the spacing or
\* more.
GrammarInit ==
    /\ clock = api_spacing /\ last_api_call = 0 /\ grammar_pc = "idle"
    /\ post_attempt = 0 /\ last_post = -1 /\ post_gap = -1
    /\ posts_made = 0 /\ grammar_outcome = "none" /\ nchecks = 0
    /\ paused = 0 /\ last_status = 0 /\ waits = <<>>

\* _check_text_languagetool_api up to the retry loop: `elapsed = time.time()
\* - self._last_api_call; if elapsed < 1.5: time.sleep(1.5 - elapsed);
\* self._last_api_call = time.time()`.
BeginCheck ==
    /\ grammar_pc = "idle" /\ nchecks < MaxChecks
    /\ LET elapsed == clock - last_api_call
           woke == IF elapsed < api_spacing
                   THEN clock + (api_spacing - elapsed)
                   ELSE clock
       IN  clock' = woke /\ last_api_call' = woke
    /\ post_attempt' = 0 /\ posts_made' = 0 /\ grammar_outcome' = "none"
    /\ last_status' = 0 /\ waits' = <<>>
    /\ grammar_pc' = "post"
    /\ nchecks' = nchecks + 1
    /\ UNCHANGED <<last_post, post_gap, paused>>
    /\ UNCHANGED besides_grammar

\* `if response.status_code in (429, 500, 502, 503) and attempt <
\* max_retries - 1`
Retried(status, k) == status \in RetriedStatuses /\ k < max_retries - 1
\* wait = 2 ** (attempt + 1), in ticks.
backoff_wait(k) == Pow2(k + 1) * TicksPerSecond

\* One iteration of `for attempt in range(max_retries)`: the POST is sent
\* now and, `delay` ticks later, either raises (timeout, connection error)
\* or is answered with a status.
Post ==
    /\ grammar_pc = "post"
    /\ \E delay \in 0..MaxDelay, request_raises \in BOOLEAN,
          answer \in Statuses :
         /\ last_post' = clock
         /\ post_gap' = IF last_post = -1 THEN -1 ELSE clock - last_post
         /\ posts_made' = posts_made + 1
         /\ last_status' = IF request_raises THEN 0 ELSE answer
         /\ IF request_raises
            THEN /\ clock' = clock + delay
                 /\ grammar_outcome' = "RequestException"
                 /\ grammar_pc' = "idle"
                 /\ UNCHANGED <<post_attempt, waits>>
            ELSE IF answer = 200
            THEN /\ clock' = clock + delay
                 /\ grammar_outcome' = "ok"
                 /\ grammar_pc' = "idle"
                 /\ UNCHANGED <<post_attempt, waits>>
            ELSE IF Retried(answer, post_attempt)
            THEN /\ clock' = clock + delay + backoff_wait(post_attempt)
                 /\ waits' = Append(waits, backoff_wait(post_attempt))
                 /\ post_attempt' = post_attempt + 1
                 /\ UNCHANGED <<grammar_outcome, grammar_pc>>
            ELSE /\ clock' = clock + delay
                 /\ grammar_outcome' = "HTTPError"
                 /\ grammar_pc' = "idle"
                 /\ UNCHANGED <<post_attempt, waits>>
    /\ UNCHANGED <<last_api_call, nchecks, paused>>
    /\ UNCHANGED besides_grammar

\* The caller lets a tick pass before the next check.
Pause ==
    /\ grammar_pc = "idle" /\ paused < MaxPause
    /\ clock' = clock + 1 /\ paused' = paused + 1
    /\ UNCHANGED <<last_api_call, grammar_pc, post_attempt, last_post,
                   post_gap, posts_made, grammar_outcome, nchecks,
                   last_status, waits>>
    /\ UNCHANGED besides_grammar

GrammarSpecInit ==
    LegacyIdle /\ ConsumersIdle /\ ReportIdle /\ CheckIdle
        /\ BatchIdle /\ GrammarInit /\ TailIdle
GrammarNext == BeginCheck \/ Post \/ Pause
GrammarSpec == GrammarSpecInit /\ [][GrammarNext]_vars

\* C20: any two consecutive POSTs one Proofreader sends to the grammar
\* service are at least 1.5 seconds apart, the retry POSTs and the first
\* POST of the next check included.
C20_PostsSpaced == post_gap = -1 \/ post_gap >= api_spacing

\* The statuses the retry rule names: 429 and every 5xx.
RetryableStatus(status) == status = 429 \/ (status >= 500 /\ status <= 599)

\* C21: a POST answered with 429 or with any 5xx status is retried: a check
\* makes at most 3 POSTs, waits 2 seconds before the second and 4 seconds
\* before the third, and raises only after the third POST has failed too.
C21_RetriedUpToThreePosts ==
    /\ posts_made <= 3
    /\ Len(waits) <= 2
    /\ \A k \in DOMAIN waits : waits[k] = Pow2(k) * TicksPerSecond
    /\ (grammar_outcome = "HTTPError" /\ RetryableStatus(last_status))
          => posts_made = 3

(***************************************************************************)
(* SpreadsheetUpdater.update_spreadsheet (spreadsheet_updater.py).         *)
(***************************************************************************)
MaxUpdates == 2
MaxMonth == 13
\* The keys of MONTH_COLUMN_MAP.
MONTH_COLUMN_MAP == 1..12
\* len(updates): the cells one call sets.
NumUpdates == 9
MainIdle ==
    /\ LegacyIdle /\ ConsumersIdle /\ ReportIdle /\ CheckIdle /\ BatchIdle
    /\ GrammarIdle

SheetInit ==
    /\ sheet_pc = "idle" /\ create_backup = FALSE /\ month = 0
    /\ backups = 0 /\ backup_failed = FALSE /\ cells_set = 0
    /\ file_modified = FALSE /\ sheet_result = "none" /\ nupdates = 0

\* `return False` out of update_spreadsheet, from the missing-file test or
\* from `except Exception`.
ReturnFalse == sheet_pc' = "idle" /\ sheet_result' = "False"

\* update_spreadsheet(metrics, month, create_backup) up to the try block:
\* `if not self.spreadsheet_path.exists(): return False`, then `if
\* create_backup:` selects the backup or goes straight to the load.
update_spreadsheet(m, with_backup, path_exists) ==
    /\ sheet_pc = "idle" /\ nupdates < MaxUpdates
    /\ nupdates' = nupdates + 1
    /\ month' = m /\ create_backup' = with_backup
    /\ backups' = 0 /\ backup_failed' = FALSE /\ cells_set' = 0
    /\ file_modified' = FALSE
    /\ IF ~path_exists
         THEN ReturnFalse
         ELSE /\ sheet_pc' = IF with_backup THEN "backup" ELSE "load"
              /\ sheet_result' = "none"
    /\ UNCHANGED besides_sheet

\* A variant of the step below in which a failed copy is not noticed.
BackupFailureIgnored ==
    /\ sheet_pc = "backup"
    /\ \E copied \in BOOLEAN :
         /\ backups' = IF copied THEN backups + 1 ELSE backups
         /\ backup_failed' = ~copied
    /\ sheet_pc' = "load"
    /\ UNCHANGED <<create_backup, month, cells_set, file_modified,
                   sheet_result, nupdates>>
    /\ UNCHANGED besides_sheet

\* _backup_spreadsheet: shutil.copy2 writes the timestamped copy or raises;
\* the exception reaches `except Exception` of update_spreadsheet.
_backup_spreadsheet ==
    /\ sheet_pc = "backup"
    /\ \E copied \in BOOLEAN :
         IF copied
           THEN /\ backups' = backups + 1 /\ sheet_pc' = "load"
                /\ UNCHANGED <<backup_failed, sheet_result>>
           ELSE /\ backup_failed' = TRUE /\ ReturnFalse
                /\ UNCHANGED backups
    /\ UNCHANGED <<create_backup, month, cells_set, file_modified, nupdates>>
    /\ UNCHANGED besides_sheet

\* `wb = openpyxl.load_workbook(...)`, which may raise, then
\* `_get_actual_column(month)`, which raises ValueError for a month that is
\* not a key of MONTH_COLUMN_MAP.
LoadWorkbook ==
    /\ sheet_pc = "load"
    /\ \E loaded \in BOOLEAN :
         IF loaded /\ month \in MONTH_COLUMN_MAP
           THEN sheet_pc' = "cells" /\ UNCHANGED sheet_result
           ELSE ReturnFalse
    /\ UNCHANGED <<create_backup, month, backups, backup_failed, cells_set,
                   file_modified, nupdates>>
    /\ UNCHANGED besides_sheet

\* One pass of `for name, row, value in updates: cell.value = value`.
SetCell ==
    /\ sheet_pc = "cells"
    /\ cells_set' = cells_set + 1
    /\ sheet_pc' = IF cells_set + 1 = NumUpdates THEN "save" ELSE "cells"
    /\ UNCHANGED <<create_backup, month, backups, backup_failed,
                   file_modified, sheet_result, nupdates>>
    /\ UNCHANGED besides_sheet

\* `wb.save(self.spreadsheet_path)`, `return True`; a save that raises may
\* or may not have written to the file before it did.
SaveWorkbook ==
    /\ sheet_pc = "save"
    /\ \E saved \in BOOLEAN :
         IF saved
           THEN /\ file_modified' = TRUE
                /\ sheet_pc' = "idle" /\ sheet_result' = "True"
           ELSE /\ file_modified' \in BOOLEAN
                /\ ReturnFalse
    /\ UNCHANGED <<create_backup, month, backups, backup_failed, cells_set,
                   nupdates>>
    /\ UNCHANGED besides_sheet

SheetSpecInit == MainIdle /\ SheetInit /\ CliIdle /\ XmlIdle /\ SignIdle
SheetNext ==
    \/ \E m \in 0..MaxMonth, with_backup \in BOOLEAN, path_exists \in BOOLEAN :
         update_spreadsheet(m, with_backup, path_exists)
    \/ _backup_spreadsheet
    \/ LoadWorkbook
    \/ SetCell
    \/ SaveWorkbook
SheetSpec == SheetSpecInit /\ [][SheetNext]_vars

\* The call has set a cell of the loaded workbook or written to the file.
WorkbookTouched == cells_set > 0 \/ file_modified

MaxToUpdate == 2
Subcommands == {"test", "update", "report", "proofread", "mark-ready"}
Commands == Subcommands \cup {"mark_ready_to_invoice"}
CredentialSettings ==
    {"AROFLO_ORG_NAME", "AROFLO_USERNAME", "AROFLO_SECRET_KEY"}

\* check_credentials(): no setting it looks at is blank.  The connector's
\* own test, `all([self.org_encoded, self.u_encoded, self.secret_key])`,
\* looks at the same three.
check_credentials == CredentialSettings \subseteq configured

CliInit ==
    /\ command \in Commands /\ configured \in SUBSET CredentialSettings
    /\ args_apply \in BOOLEAN /\ checker_installed \in BOOLEAN
    /\ cli_pc = "start" /\ tasks_to_update = 0
    /\ update_i = 0 /\ update_calls = 0 /\ cli_failed = 0
    /\ request_failed = FALSE /\ exit_status = -1

\* The process ends with the given status.
Exit(status) == cli_pc' = "exited" /\ exit_status' = status
\* What `return value` out of the command makes of the process: main.py
\* passes the value to sys.exit, the script drops it.
Return(value) ==
    Exit(IF command = "mark_ready_to_invoice" THEN 0 ELSE value)
\* An exception nothing catches.
Uncaught == Exit(1)

\* The head of each command: `if not check_credentials(): return 1`, and in
\* cmd_proofread the test for an installed checker.  The script has no
\* such test.
Start ==
    /\ cli_pc = "start"
    /\ IF command \in Subcommands /\ ~check_credentials
         THEN Return(1)
       ELSE IF command = "proofread" /\ ~checker_installed
         THEN Return(1)
       ELSE /\ cli_pc' = CASE command \in {"test", "update", "proofread"}
                                  -> "connect"
                            [] command = "report" -> "report"
                            [] OTHER -> "substatus"
            /\ UNCHANGED exit_status
    /\ UNCHANGED <<command, configured, args_apply, checker_installed,
                   tasks_to_update, update_i, update_calls, cli_failed,
                   request_failed>>
    /\ UNCHANGED besides_cli

\* A connector read can return only with the credentials set.
ReadOutcomes == IF check_credentials THEN BOOLEAN ELSE {FALSE}

\* `if not connector.test_connection(): return 1`; test_connection turns an
\* exception of request() into False.
TestConnection ==
    /\ cli_pc = "connect"
    /\ \E answered \in ReadOutcomes :
         /\ request_failed' = (request_failed \/ ~answered)
         /\ IF ~answered THEN Return(1)
            ELSE IF command = "test" THEN Return(0)
            ELSE /\ cli_pc' = IF command = "update" THEN "report"
                              ELSE "proofread"
                 /\ UNCHANGED exit_status
    /\ UNCHANGED <<command, configured, args_apply, checker_installed,
                   tasks_to_update, update_i, update_calls, cli_failed>>
    /\ UNCHANGED besides_cli

\* cmd_update and cmd_report: `metrics = extractor.get_monthly_report(...)`,
\* which catches nothing, the printing, `return 0`.
GetMonthlyReport ==
    /\ cli_pc = "report"
    /\ \E answered \in ReadOutcomes :
         /\ request_failed' = (request_failed \/ ~answered)
         /\ IF answered THEN Return(0) ELSE Uncaught
    /\ UNCHANGED <<command, configured, args_apply, checker_installed,
                   tasks_to_update, update_i, update_calls, cli_failed>>
    /\ UNCHANGED besides_cli

\* cmd_proofread: proofread_uninvoiced_jobs(), whose
\* get_completed_uninvoiced_jobs() turns an exception of request() into an
\* empty list, the printing, `return 0`.
ProofreadUninvoicedJobs ==
    /\ cli_pc = "proofread"
    /\ \E answered \in ReadOutcomes :
         /\ request_failed' = (request_failed \/ ~answered)
         /\ Return(0)
    /\ UNCHANGED <<command, configured, args_apply, checker_installed,
                   tasks_to_update, update_i, update_calls, cli_failed>>
    /\ UNCHANGED besides_cli

\* `substatus_id = connector.get_substatus_id("Ready to Invoice")`, which
\* catches nothing; `if not substatus_id: return 1` (`return` in the
\* script).
CliGetSubstatusId ==
    /\ cli_pc = "substatus"
    /\ \E answered \in ReadOutcomes, found \in BOOLEAN :
         /\ request_failed' = (request_failed \/ ~answered)
         /\ IF ~answered THEN Uncaught
            ELSE IF ~found THEN Return(1)
            ELSE cli_pc' = "tasks" /\ UNCHANGED exit_status
    /\ UNCHANGED <<command, configured, args_apply, checker_installed,
                   tasks_to_update, update_i, update_calls, cli_failed>>
    /\ UNCHANGED besides_cli

\* Where a command goes once it has listed the tasks to update: `if not
\* args.apply: ... return 0` ends a dry run.
AlwaysApplies(apply) == "updates"
AfterListing(apply) == IF apply THEN "updates" ELSE "exited"

\* The completed tasks are read (nothing catches an exception), those not
\* yet Ready to Invoice are listed, and the command returns 0 if there are
\* none or if it is a dry run.
ListTasks ==
    /\ cli_pc = "tasks"
    /\ \E answered \in ReadOutcomes, n \in 0..MaxToUpdate :
         /\ request_failed' = (request_failed \/ ~answered)
         /\ IF ~answered
              THEN Uncaught /\ UNCHANGED tasks_to_update
            ELSE /\ tasks_to_update' = n
                 /\ IF n = 0 \/ AfterListing(args_apply) = "exited"
                      THEN Return(0)
                      ELSE cli_pc' = "updates" /\ UNCHANGED exit_status
    /\ UNCHANGED <<command, configured, args_apply, checker_installed,
                   update_i, update_calls, cli_failed>>
    /\ UNCHANGED besides_cli

\* One pass of `for t in tasks_to_update: try:
\* connector.update_task_substatus(...) except Exception: failed += 1`, and
\* after the last `return 0 if failed == 0 else 1`.
UpdateTask ==
    /\ cli_pc = "updates"
    /\ IF update_i = tasks_to_update
         THEN /\ Return(IF cli_failed = 0 THEN 0 ELSE 1)
              /\ UNCHANGED <<update_i, update_calls, cli_failed>>
         ELSE /\ update_i' = update_i + 1
              /\ update_calls' = update_calls + 1
              /\ \E updated \in BOOLEAN :
                   cli_failed' = IF updated THEN cli_failed ELSE cli_failed + 1
              /\ UNCHANGED <<cli_pc, exit_status>>
    /\ UNCHANGED <<command, configured, args_apply, checker_installed,
                   tasks_to_update, request_failed>>
    /\ UNCHANGED besides_cli

CliSpecInit == MainIdle /\ SheetIdle /\ CliInit /\ XmlIdle /\ SignIdle
CliNext ==
    \/ Start
    \/ TestConnection
    \/ GetMonthlyReport
    \/ ProofreadUninvoicedJobs
    \/ CliGetSubstatusId
    \/ ListTasks
    \/ UpdateTask
CliSpec == CliSpecInit /\ [][CliNext]_vars

\* The three programs that mark tasks ready, one of them run from its start.
DryRunInit == RunSpecInit \/ CliSpecInit
DryRunNext == RunNext \/ CliNext
DryRunSpec == DryRunInit /\ [][DryRunNext]_vars

\* C23: without --apply neither cmd_mark_ready nor mark_ready_to_invoice.main
\* nor proofread_and_mark_ready.main calls update_task_substatus or
\* update_task_description.
C23_DryRunWritesNothing ==
    /\ ~args_apply => update_calls = 0
    /\ ~apply_changes => api_writes = <<>>
C23_Witness ==
    /\ ~args_apply /\ cli_pc = "exited" /\ tasks_to_update > 0
    /\ command = "mark_ready_to_invoice"
\* A dry run of proofread_and_mark_ready that found a description to fix.
DryRunWithCorrections ==
    /\ ~apply_changes /\ main_pc = "returned" /\ Len(jobs_to_process) > 0
    /\ \E j \in DOMAIN jobs_to_process : jobs_to_process[j].description_changed

\* A failure of a subcommand: a credential is missing, an API read it made
\* has raised (the connection test included), or an update of mark-ready
\* --apply has raised.
CommandFailure == ~check_credentials \/ request_failed \/ cli_failed > 0

\* C24: a subcommand of main.py exits with status 1 whenever a credential
\* is missing, the connection or an API request of the command fails, or a
\* task update of mark-ready --apply fails; it exits with 0 only when none
\* of these happened.
C24_FailureExitsOne ==
    (command \in Subcommands /\ cli_pc = "exited")
        => /\ CommandFailure => exit_status = 1
           /\ exit_status = 0 => ~CommandFailure

\* The same with the proofread subcommand left aside.
FailureExitsOneButProofread ==
    (command \in Subcommands \ {"proofread"} /\ cli_pc = "exited")
        => (CommandFailure => exit_status = 1)

(***************************************************************************)
(* The connector's retry loop, rate limit and signature once more.         *)
(***************************************************************************)
\* C25: in a connector call with N attempts, the failed attempt number k
\* (from 0) with k < N - 1 is followed by a sleep of exactly 2^k seconds,
\* after which attempt k + 1 is dispatched; nothing is slept after the last
\* failed attempt, nor after an attempt that was answered.
C25_BackoffDoubles ==
    \A i \in DOMAIN attempts :
        LET k == i - 1
            a == attempts[i]
        IN /\ (a.failed /\ k < retries - 1)
                => /\ a.slept = Pow2(k) * TicksPerSecond
                   /\ i < Len(attempts)
                        => attempts[i + 1].sent = a.ended + a.slept
           /\ (a.failed /\ k >= retries - 1) => a.slept = 0
           /\ ~a.failed => a.slept = 0
C25_Witness ==
    /\ pc = "idle" /\ retries = DEFAULT_RETRIES /\ Len(attempts) = 3
    /\ \A i \in DOMAIN attempts : attempts[i].failed
    /\ attempts[1].slept = TicksPerSecond
    /\ attempts[2].slept = 2 * TicksPerSecond
    /\ attempts[3].slept = 0

\* The latest call that passed the credentials check waited for the
\* watermark it found, set the watermark to the time it then read, and
\* dispatched its first attempt no earlier.
WaitedForWatermark ==
    (ncalls > 0 /\ op \in ReadOps \cup WriteOps
        /\ outcome.kind # "ValueError_credentials")
    => /\ last_request_time = entry.now + rate_slept
       /\ last_request_time >= entry.last_request_time + min_request_interval
       /\ attempts # <<>> => attempts[1].sent >= last_request_time

\* C26: every call of request, update_task_substatus or
\* update_task_description that passes the credentials check dispatches
\* first no earlier than the previous watermark plus min_interval, with the
\* watermark set to the current time before that dispatch; and the
\* watermark never decreases.
C26_WatermarkRespected ==
    [][last_request_time' >= last_request_time /\ WaitedForWatermark']_vars
C26_Witness ==
    /\ ncalls = 2 /\ op = "update_task_description" /\ rate_slept > 0
    /\ attempts # <<>>
    /\ attempts[1].sent = entry.last_request_time + min_request_interval

(***************************************************************************)
(* The XML payload of update_task_description.                             *)
(***************************************************************************)
MaxDescriptionLen == 3
\* The characters of a description: the five the payload escapes and three
\* that spell an entity.
DescriptionChars == {"&", "<", ">", "\"", "'", "l", "t", ";"}
Descriptions ==
    UNION {[1..n -> DescriptionChars] : n \in 0..MaxDescriptionLen}
        \cup {<<"&", "l", "t", ";">>, <<"&", "a", "m", "p", ";">>,
              <<"a", "&", "b", "<", "c", ">">>}

\* str.replace(old, new) for a one-character old.
RECURSIVE str_replace(_, _, _)
str_replace(s, old, new) ==
    IF s = <<>> THEN <<>>
    ELSE (IF Head(s) = old THEN new ELSE <<Head(s)>>)
             \o str_replace(Tail(s), old, new)

amp == <<"&", "a", "m", "p", ";">>
lt == <<"&", "l", "t", ";">>
gt == <<"&", "g", "t", ";">>
quot == <<"&", "q", "u", "o", "t", ";">>
apos == <<"&", "a", "p", "o", "s", ";">>

\* A variant that replaces & after the other four.
xml_escape_ampersand_last(s) ==
    str_replace(
        str_replace(
            str_replace(
                str_replace(str_replace(s, "<", lt), ">", gt),
                "\"", quot),
            "'", apos),
        "&", amp)

\* `description.replace("&", "&amp;").replace("<", "&lt;")
\* .replace(">", "&gt;").replace('"', "&quot;").replace("'", "&apos;")`
xml_escape(s) ==
    str_replace(
        str_replace(
            str_replace(
                str_replace(str_replace(s, "&", amp), "<", lt),
                ">", gt),
            "\"", quot),
        "'", apos)

XmlInit ==
    /\ xml_description \in Descriptions /\ embedded = <<>>
    /\ escape_pc = "start"

\* update_task_description from the escaping to the f-string that embeds
\* the description in postxml.
BuildPostxml ==
    /\ escape_pc = "start"
    /\ embedded' = xml_escape(xml_description)
    /\ escape_pc' = "built"
    /\ UNCHANGED xml_description
    /\ UNCHANGED besides_xml

XmlSpecInit == MainIdle /\ SheetIdle /\ CliIdle /\ XmlInit /\ SignIdle
XmlNext == BuildPostxml
XmlSpec == XmlSpecInit /\ [][XmlNext]_vars

\* The entities and the characters they stand for.
Entities ==
    {[entity |-> amp, char |-> "&"], [entity |-> lt, char |-> "<"],
     [entity |-> gt, char |-> ">"], [entity |-> quot, char |-> "\""],
     [entity |-> apos, char |-> "'"]}
\* The entity a text begins with, if it begins with one.
EntityAt(s) ==
    {e \in Entities : PySlice(s, 0, Len(e.entity)) = e.entity}
\* Decoding, as a reader of the XML does it: from left to right, each
\* entity gives its character.
RECURSIVE xml_decode(_)
xml_decode(s) ==
    IF s = <<>> THEN <<>>
    ELSE IF EntityAt(s) # {}
      THEN LET e == CHOOSE e \in EntityAt(s) : TRUE
           IN <<e.char>> \o xml_decode(PyFrom(s, Len(e.entity)))
      ELSE <<Head(s)>> \o xml_decode(Tail(s))

\* Every & of the text begins one of the five entities.
RECURSIVE OnlyEntityAmpersands(_)
OnlyEntityAmpersands(s) ==
    \/ s = <<>>
    \/ /\ Head(s) = "&" => EntityAt(s) # {}
       /\ OnlyEntityAmpersands(Tail(s))

\* How often a character occurs in a text.
RECURSIVE Count(_, _)
Count(s, ch) ==
    IF s = <<>> THEN 0
    ELSE (IF Head(s) = ch THEN 1 ELSE 0) + Count(Tail(s), ch)

\* C27: the description embedded in the payload has every & < > " '
\* replaced by its entity, & first, so that no entity is escaped twice:
\* the embedded text holds none of < > " ' and no & that does not begin an
\* entity, it holds one & for each escaped character of the description,
\* and decoding it gives the description back.
C27_EscapedAndDecodable ==
    escape_pc = "built" =>
        /\ \A ch \in {"<", ">", "\"", "'"} : Count(embedded, ch) = 0
        /\ OnlyEntityAmpersands(embedded)
        /\ Count(embedded, "&") =
             Count(xml_description, "&") + Count(xml_description, "<")
                + Count(xml_description, ">") + Count(xml_description, "\"")
                + Count(xml_description, "'")
        /\ xml_decode(embedded) = xml_description
C27_Witness ==
    /\ escape_pc = "built"
    /\ xml_description = <<"&", "l", "t", ";">>
    /\ embedded = <<"&", "a", "m", "p", ";", "l", "t", ";">>

\* C28: whenever the text corrector returns an empty diagnostics list, the
\* corrected text it returns is the input text: every change made to the
\* text is reported by a diagnostic.
C28_SilentTextUnchanged ==
    (check_pc = "returned" /\ errors = <<>>) => corrected = input_text

\* The same for the texts the custom pass leaves alone.
SilentTextUnchangedAfterCustomPass ==
    (check_pc = "returned" /\ errors = <<>>
        /\ custom_corrections(input_text) = input_text)
    => corrected = input_text

\* The description update of job j that main() sent was answered.
DescriptionUpdated(j) ==
    \E d \in DOMAIN api_writes :
        /\ api_writes[d].op = "update_task_description"
        /\ api_writes[d].job = j /\ api_writes[d].updated

\* C29: with --apply, the Ready to Invoice update is sent for a task only
\* if its description needed no correction or its description update
\* succeeded; it is not sent for a task whose description update failed or
\* whose proofreading raised.
C29_MarkedOnlyWhenSettled ==
    \A k \in DOMAIN api_writes :
        api_writes[k].op = "update_task_substatus" =>
            LET j == api_writes[k].job
                job == jobs_to_process[j]
            IN /\ ~job.check_raised
               /\ ~job.description_changed \/ DescriptionUpdated(j)

(***************************************************************************)
(* One HTTP attempt of the connector with its signature in full: the       *)
(* payload list of _generate_auth / _generate_auth_post, the headers they  *)
(* return, and what the attempt transmits.                                 *)
(***************************************************************************)
MaxSigned == 2
MaxStamp == 3
HostIps == {"", "203.0.113.7"}
\* The var_string values built by request() and by the two updates.
QueryStrings == {"zone=tasks", "zone=tasks&page=1", "zone=invoices&page=2"}
FormBodies == {"zone=tasks&postxml=%3Caroflo%3E1", "zone=tasks&postxml=%3Caroflo%3E2"}
VarStrings(o) == IF o \in ReadOps THEN QueryStrings ELSE FormBodies
auth_string == "uencoded=u&pencoded=p&orgEncoded=org"

\* The headers both signing functions build: `if self.host_ip:
\* headers["HostIP"] = self.host_ip`.
HeaderNames ==
    {"Accept", "Authentication", "Authorization", "afdatetimeutc"}
        \cup (IF host_ip # "" THEN {"HostIP"} ELSE {})
AuthHeaders(payload, accept, timestamp) ==
    [h \in HeaderNames |->
        CASE h = "Accept" -> <<accept>>
          [] h = "Authentication" -> <<"HMAC">> \o payload
          [] h = "Authorization" -> <<auth_string>>
          [] h = "afdatetimeutc" -> <<timestamp>>
          [] h = "HostIP" -> <<host_ip>>]

\* The payload list: requestType, HostIP if set, urlPath (always empty),
\* accept, Authorization, timestamp, VarString.
SignedPayload(request_type, accept, timestamp, var_string) ==
    <<request_type>> \o (IF host_ip # "" THEN <<host_ip>> ELSE <<>>)
        \o <<"", accept, auth_string, timestamp, var_string>>

\* A variant of _generate_auth_post that signs as _generate_auth does.
SignPostAsGet(var_string, accept, timestamp) ==
    SignedPayload("GET", accept, timestamp, var_string)
\* _generate_auth and _generate_auth_post: the payload that is signed.
_generate_auth(var_string, accept, timestamp) ==
    SignedPayload("GET", accept, timestamp, var_string)
_generate_auth_post(var_string, accept, timestamp) ==
    SignedPayload("POST", accept, timestamp, var_string)

\* AroFloConnector(host_ip=...).
SignInit ==
    /\ host_ip \in HostIps /\ signed_op = "none" /\ string_to_sign = <<>>
    /\ transmitted = NothingSent /\ nsigned = 0

\* One attempt of request(): `headers = self._generate_auth(var_string)`,
\* `self.session.get(url, headers=headers)` with url = base_url?var_string.
GetAttempt ==
    /\ nsigned < MaxSigned
    /\ \E var_string \in VarStrings("request"), timestamp \in 0..MaxStamp :
         LET payload == _generate_auth(var_string, "text/json", timestamp)
         IN /\ string_to_sign' = payload
            /\ transmitted' =
                 [method |-> "GET", params |-> var_string,
                  headers |-> AuthHeaders(payload, "text/json", timestamp)]
    /\ signed_op' = "request"
    /\ nsigned' = nsigned + 1
    /\ UNCHANGED host_ip
    /\ UNCHANGED besides_sign

\* One attempt of update_task_substatus or update_task_description:
\* `headers = self._generate_auth_post(var_string)`,
\* `self.session.post(self.base_url, headers=headers, data=var_string)`.
PostAttempt ==
    /\ nsigned < MaxSigned
    /\ \E o \in WriteOps, var_string \in VarStrings("update_task_substatus"),
          timestamp \in 0..MaxStamp :
         LET payload == _generate_auth_post(var_string, "text/json", timestamp)
         IN /\ string_to_sign' = payload
            /\ transmitted' =
                 [method |-> "POST", params |-> var_string,
                  headers |-> AuthHeaders(payload, "text/json", timestamp)]
            /\ signed_op' = o
    /\ nsigned' = nsigned + 1
    /\ UNCHANGED host_ip
    /\ UNCHANGED besides_sign

SignSpecInit == MainIdle /\ SheetIdle /\ CliIdle /\ XmlIdle /\ SignInit
SignNext == GetAttempt \/ PostAttempt
SignSpec == SignSpecInit /\ [][SignNext]_vars

\* C30: for every HTTP attempt the method and the parameter string the
\* signature covers are the method and the parameter string transmitted
\* (GET and the query string for request(), POST and the form body for the
\* two updates), and the HostIP header is sent exactly when host_ip is one
\* of the signed fields.
C30_SignatureCoversTransmitted ==
    nsigned > 0 =>
        /\ string_to_sign[1] = transmitted.method
        /\ string_to_sign[Len(string_to_sign)] = transmitted.params
        /\ transmitted.method = IF signed_op \in ReadOps THEN "GET" ELSE "POST"
        /\ transmitted.params \in VarStrings(signed_op)
        /\ transmitted.headers["Authentication"] = <<"HMAC">> \o string_to_sign
        /\ "HostIP" \in DOMAIN transmitted.headers
             <=> (Len(string_to_sign) = 7 /\ string_to_sign[2] = host_ip)
        /\ "HostIP" \notin DOMAIN transmitted.headers
             => Len(string_to_sign) = 6
C30_Witness ==
    /\ nsigned = 2 /\ signed_op = "update_task_description"
    /\ host_ip # "" /\ "HostIP" \in DOMAIN transmitted.headers
    /\ string_to_sign[1] = "POST"

====
